---- MODULE Spec2Model ----
(***************************************************************************)
(* CSV parsing and format-conversion pipeline of the test-case generator:  *)
(* src/utils/csvParser.js (parseCSVToTestCases, parseCSVLine) and          *)
(* src/utils/zephyrExporter.js (escapeCSVField).                           *)
(*                                                                         *)
(* A JavaScript string is a sequence of one-character strings.  Indices    *)
(* named after the source (i, headerIndex) keep the source's 0-based       *)
(* values; the character at JS index i is s[i + 1].                        *)
(***************************************************************************)
EXTENDS Integers, Sequences, FiniteSets, TLC

\* ------------------------------------------------------------------ bounds
MaxLines == 4

MaxLineLen == 5

MaxFieldLen == 3

MaxSteps == 2

MaxColumns == 3

MaxScoreLen == 4

\* estimateTime: the largest number of steps of a record
MaxStepCount == 40

\* generateBDDScript: the largest number of steps of a record
MaxBddSteps == 3

\* ------------------------------------------------- JavaScript string model
NL == "\n"

QUOTE == "\""

COMMA == ","

PIPE == "|"

UpperLetters == <<"A","B","C","D","E","F","G","H","I","J","K","L","M",
                  "N","O","P","Q","R","S","T","U","V","W","X","Y","Z">>

LowerLetters == <<"a","b","c","d","e","f","g","h","i","j","k","l","m",
                  "n","o","p","q","r","s","t","u","v","w","x","y","z">>

Digits == <<"0","1","2","3","4","5","6","7","8","9">>

IsSpace(c) == c \in {" ", "\n", "\t", "\r"}

IsDigit(c) == \E k \in 1..10 : Digits[k] = c

DigitVal(c) == (CHOOSE k \in 1..10 : Digits[k] = c) - 1

LowerChar(c) ==
  IF \E k \in 1..26 : UpperLetters[k] = c
    THEN LowerLetters[CHOOSE k \in 1..26 : UpperLetters[k] = c]
    ELSE c

\* a variant that leaves the letter case alone
toLowerCase_Identity(s) == s

toLowerCase(s) == [k \in 1..Len(s) |-> LowerChar(s[k])]

RECURSIVE trimStart(_)
trimStart(s) ==
  IF s /= <<>> /\ IsSpace(Head(s)) THEN trimStart(Tail(s)) ELSE s

RECURSIVE trimEnd(_)
trimEnd(s) ==
  IF s /= <<>> /\ IsSpace(s[Len(s)])
    THEN trimEnd(SubSeq(s, 1, Len(s) - 1))
    ELSE s

trim(s) == trimEnd(trimStart(s))

startsWith(s, p) == Len(s) >= Len(p) /\ SubSeq(s, 1, Len(p)) = p

includes(s, sub) ==
  \E k \in 1..(Len(s) - Len(sub) + 1) : SubSeq(s, k, k + Len(sub) - 1) = sub

includesChar(s, c) == \E k \in 1..Len(s) : s[k] = c

\* s.split(c) for a one-character separator: always at least one part,
\* the n-th part lying between the (n-1)-th and the n-th separator
split(s, c) ==
  LET seps == {k \in 1..Len(s) : s[k] = c}
      nth(n) == IF n = 0 THEN 0
                ELSE IF n > Cardinality(seps) THEN Len(s) + 1
                ELSE CHOOSE k \in seps : Cardinality({j \in seps : j <= k}) = n
  IN [n \in 1..(Cardinality(seps) + 1) |->
        SubSeq(s, nth(n - 1) + 1, nth(n) - 1)]

\* parts.join(sep): the empty array joins to the empty string
RECURSIVE join(_, _)
join(parts, sep) ==
  IF parts = <<>> THEN <<>>
  ELSE IF Len(parts) = 1 THEN parts[1]
  ELSE parts[1] \o sep \o join(Tail(parts), sep)

\* s.replace(/"/g, '')
removeQuotes(s) == SelectSeq(s, LAMBDA c : c /= QUOTE)

\* s.replace(/"/g, '""')
doubleQuotes(s) == join(split(s, QUOTE), <<QUOTE, QUOTE>>)

\* a variant that wraps the field in quotes but leaves internal quotes single
escapeCSVField_NoDoubling(field) ==
  IF field = <<>> THEN <<>>
  ELSE IF includesChar(field, COMMA) \/ includesChar(field, NL)
          \/ includesChar(field, QUOTE)
    THEN <<QUOTE>> \o field \o <<QUOTE>>
  ELSE field

\* ----------------------------------------------- zephyrExporter.js:87-98
escapeCSVField(field) ==
  IF field = <<>> THEN <<>>
  ELSE IF includesChar(field, COMMA) \/ includesChar(field, NL)
          \/ includesChar(field, QUOTE)
    THEN <<QUOTE>> \o doubleQuotes(field) \o <<QUOTE>>
  ELSE field

\* --------------------------------------------------- csvParser.js:119-154
\* the locals of parseCSVLine at loop entry
parseCSVLineInit == [result |-> <<>>, current |-> <<>>, inQuotes |-> FALSE, i |-> 0]

\* a variant that closes the field at every comma, quoted or not
parseCSVLineStep_SplitInQuotes(line, st) ==
  LET char == line[st.i + 1]
      hasNext == st.i + 2 <= Len(line)
  IN IF char = QUOTE
       THEN IF st.inQuotes /\ hasNext /\ line[st.i + 2] = QUOTE
              THEN [st EXCEPT !.current = Append(@, QUOTE), !.i = @ + 2]
              ELSE [st EXCEPT !.inQuotes = ~@, !.i = @ + 1]
     ELSE IF char = COMMA
       THEN [st EXCEPT !.result = Append(@, trim(st.current)),
                       !.current = <<>>, !.i = @ + 1]
     ELSE [st EXCEPT !.current = Append(@, char), !.i = @ + 1]

\* one iteration of the while loop (lines 126-147), for st.i < Len(line)
parseCSVLineStep(line, st) ==
  LET char == line[st.i + 1]
      hasNext == st.i + 2 <= Len(line)
  IN IF char = QUOTE
       THEN IF st.inQuotes /\ hasNext /\ line[st.i + 2] = QUOTE
              THEN [st EXCEPT !.current = Append(@, QUOTE), !.i = @ + 2]
              ELSE [st EXCEPT !.inQuotes = ~@, !.i = @ + 1]
     ELSE IF char = COMMA /\ ~st.inQuotes
       THEN [st EXCEPT !.result = Append(@, trim(st.current)),
                       !.current = <<>>, !.i = @ + 1]
     ELSE [st EXCEPT !.current = Append(@, char), !.i = @ + 1]

\* a variant that returns without adding the field being accumulated
parseCSVLineReturn_DropLast(st) == st.result

\* lines 150-153: add the last field and return
parseCSVLineReturn(st) == Append(st.result, trim(st.current))

\* lines 125-148: at most n passes of the for loop from st on, none once
\* i has reached the end of the line
RECURSIVE parseCSVLineRun(_, _, _)
parseCSVLineRun(line, st, n) ==
  IF n = 0 \/ st.i >= Len(line) THEN st
  ELSE IF n = 1 THEN parseCSVLineStep(line, st)
  ELSE parseCSVLineRun(line, parseCSVLineRun(line, st, n \div 2),
                       n - (n \div 2))

\* every pass advances i, so Len(line) passes reach the end of the line
parseCSVLineLoop(line, st) ==
  parseCSVLineReturn(parseCSVLineRun(line, st, Len(line)))

parseCSVLine(line) == parseCSVLineLoop(line, parseCSVLineInit)

\* ----------------------------------------------------- csvParser.js:6-112
\* property names of a test case object, as JavaScript strings
K_id == <<"i","d">>

K_title == <<"t","i","t","l","e">>

K_steps == <<"s","t","e","p","s">>

K_expected == <<"e","x","p","e","c","t","e","d">>

K_priority == <<"p","r","i","o","r","i","t","y">>

K_category == <<"c","a","t","e","g","o","r","y">>

K_type == <<"t","y","p","e">>

K_qualityScore == <<"q","u","a","l","i","t","y","S","c","o","r","e">>

\* an object is a function from its property names; {} has no property
EmptyObject == [k \in {} |-> <<>>]

hasProp(obj, key) == key \in DOMAIN obj

\* obj[key] = v
setProp(obj, key, v) ==
  [k \in (DOMAIN obj) \cup {key} |-> IF k = key THEN v ELSE obj[k]]

\* a number with a decimal fraction: n / 10^e, e minimal
Num(n, e) == [n |-> n, e |-> e]

RECURSIVE digitRun(_, _)
digitRun(s, k) ==
  IF k <= Len(s) /\ IsDigit(s[k]) THEN <<s[k]>> \o digitRun(s, k + 1) ELSE <<>>

RECURSIVE digitsValue(_)
digitsValue(ds) ==
  IF ds = <<>> THEN 0
  ELSE 10 * digitsValue(SubSeq(ds, 1, Len(ds) - 1)) + DigitVal(ds[Len(ds)])

RECURSIVE dropTrailingZeros(_)
dropTrailingZeros(ds) ==
  IF ds /= <<>> /\ ds[Len(ds)] = "0"
    THEN dropTrailingZeros(SubSeq(ds, 1, Len(ds) - 1))
    ELSE ds

\* a variant whose pattern is anchored at the start of the cell (/^(\d+\.?\d*)/)
parseQualityScore_Leading(value) ==
  IF value = <<>> \/ ~IsDigit(value[1]) THEN Num(0, 0)
  ELSE LET int == digitRun(value, 1)
           dot == 1 + Len(int)
           frac == IF dot <= Len(value) /\ value[dot] = "."
                     THEN dropTrailingZeros(digitRun(value, dot + 1))
                     ELSE <<>>
       IN Num(digitsValue(int \o frac), Len(frac))

\* value.match(/(\d+\.?\d*)/) then parseFloat(scoreMatch[1]), else 0
parseQualityScore(value) ==
  IF ~ \E k \in 1..Len(value) : IsDigit(value[k]) THEN Num(0, 0)
  ELSE LET k0 == CHOOSE k \in 1..Len(value) :
                   /\ IsDigit(value[k])
                   /\ \A j \in 1..(k - 1) : ~IsDigit(value[j])
           int == digitRun(value, k0)
           dot == k0 + Len(int)
           frac == IF dot <= Len(value) /\ value[dot] = "."
                     THEN dropTrailingZeros(digitRun(value, dot + 1))
                     ELSE <<>>
       IN Num(digitsValue(int \o frac), Len(frac))

\* s.replace(/^\d+\.\s*/, '')
stripNumbering(s) ==
  LET ds == digitRun(s, 1)
  IN IF ds /= <<>> /\ Len(ds) < Len(s) /\ s[Len(ds) + 1] = "."
       THEN trimStart(SubSeq(s, Len(ds) + 2, Len(s)))
       ELSE s

\* a variant that leaves whitespace in the key
spacesToUnderscore_Identity(s) == s

\* s.replace(/\s+/g, '_')
RECURSIVE spacesToUnderscore(_)
spacesToUnderscore(s) ==
  IF s = <<>> THEN <<>>
  ELSE IF IsSpace(Head(s)) THEN <<"_">> \o spacesToUnderscore(trimStart(s))
  ELSE <<Head(s)>> \o spacesToUnderscore(Tail(s))

\* lines 65-71: the value assigned to testCase.steps
decodeSteps(value) ==
  IF includesChar(value, PIPE)
    THEN LET parts == split(value, PIPE)
         IN [k \in 1..Len(parts) |-> trim(parts[k])]
  ELSE IF includesChar(value, NL)
    THEN LET parts == split(value, NL)
         IN [k \in 1..Len(parts) |-> stripNumbering(trim(parts[k]))]
  ELSE <<value>>

\* a variant that stores the priority, category and type cells as they are
mapHeader_NoDefaults(testCase, header, value) ==
  LET h == toLowerCase(header)
  IN IF h \in {<<"t","e","s","t","i","d">>, <<"t","e","s","t"," ","i","d">>}
       THEN setProp(testCase, K_id, value)
     ELSE IF h = <<"t","i","t","l","e">>
       THEN setProp(testCase, K_title, value)
     ELSE IF h = <<"s","t","e","p","s">>
       THEN setProp(testCase, K_steps, decodeSteps(value))
     ELSE IF h \in {<<"e","x","p","e","c","t","e","d"," ","r","e","s","u","l","t">>, <<"e","x","p","e","c","t","e","d">>}
       THEN setProp(testCase, K_expected, value)
     ELSE IF h = <<"p","r","i","o","r","i","t","y">>
       THEN setProp(testCase, K_priority, value)
     ELSE IF h = <<"c","a","t","e","g","o","r","y">>
       THEN setProp(testCase, K_category, value)
     ELSE IF h = <<"t","y","p","e">>
       THEN setProp(testCase, K_type, value)
     ELSE IF h = <<"q","u","a","l","i","t","y"," ","s","c","o","r","e">>
       THEN setProp(testCase, K_qualityScore, parseQualityScore(value))
     ELSE setProp(testCase, spacesToUnderscore(h), value)

\* lines 52-93: the body of headers.forEach for one (header, value) pair
mapHeader(testCase, header, value) ==
  LET h == toLowerCase(header)
  IN IF h \in {<<"t","e","s","t","i","d">>, <<"t","e","s","t"," ","i","d">>}
       THEN setProp(testCase, K_id, value)
     ELSE IF h = <<"t","i","t","l","e">>
       THEN setProp(testCase, K_title, value)
     ELSE IF h = <<"s","t","e","p","s">>
       THEN setProp(testCase, K_steps, decodeSteps(value))
     ELSE IF h \in {<<"e","x","p","e","c","t","e","d"," ","r","e","s","u","l","t">>,
                    <<"e","x","p","e","c","t","e","d">>}
       THEN setProp(testCase, K_expected, value)
     ELSE IF h = <<"p","r","i","o","r","i","t","y">>
       THEN setProp(testCase, K_priority,
                    IF value /= <<>> THEN value ELSE <<"M","e","d","i","u","m">>)
     ELSE IF h = <<"c","a","t","e","g","o","r","y">>
       THEN setProp(testCase, K_category,
                    IF value /= <<>> THEN value
                    ELSE <<"F","u","n","c","t","i","o","n","a","l">>)
     ELSE IF h = <<"t","y","p","e">>
       THEN setProp(testCase, K_type,
                    IF value /= <<>> THEN value ELSE <<"S","m","o","k","e">>)
     ELSE IF h = <<"q","u","a","l","i","t","y"," ","s","c","o","r","e">>
       THEN setProp(testCase, K_qualityScore, parseQualityScore(value))
     ELSE setProp(testCase, spacesToUnderscore(h), value)

\* lines 50-94: headers.forEach over the row's values, from index k on
RECURSIVE mapRowFrom(_, _, _, _)
mapRowFrom(headers, values, k, testCase) ==
  IF k > Len(headers) THEN testCase
  ELSE mapRowFrom(headers, values, k + 1,
         mapHeader(testCase, headers[k],
                   IF k <= Len(values) THEN values[k] ELSE <<>>))

mapRow(headers, values) == mapRowFrom(headers, values, 1, EmptyObject)

\* a variant that requires the id only
hasRequiredFields_IdOnly(testCase) ==
  hasProp(testCase, K_id) /\ testCase[K_id] /= <<>>

\* line 97: testCase.id && testCase.title
hasRequiredFields(testCase) ==
  /\ hasProp(testCase, K_id) /\ testCase[K_id] /= <<>>
  /\ hasProp(testCase, K_title) /\ testCase[K_title] /= <<>>

\* a variant that does not skip '---' separator lines
isSkippedLine_NoSeparator(line) ==
  \/ trim(line) = <<>>
  \/ includes(line, <<"M","E","T","A","D","A","T","A">>)

\* line 38: the lines the loop skips before tokenizing
isSkippedLine(line) ==
  \/ trim(line) = <<>>
  \/ startsWith(line, <<"-","-","-">>)
  \/ includes(line, <<"M","E","T","A","D","A","T","A">>)

\* a variant that keeps rows shorter than the header
isIncomplete_Never(values, headers) == FALSE

\* lines 45-47
isIncomplete(values, headers) == Len(values) < Len(headers)

\* a variant that adds at the front (unshift)
pushTestCase_Front(testCases, testCase) == <<testCase>> \o testCases

\* testCases.push(testCase)
pushTestCase(testCases, testCase) == Append(testCases, testCase)

\* lines 36-103: one pass of the for loop per data line
RECURSIVE dataLoop(_, _, _, _)
dataLoop(headers, dataLines, k, testCases) ==
  IF k > Len(dataLines) THEN testCases
  ELSE LET line == dataLines[k]
           values == parseCSVLine(line)
           testCase == mapRow(headers, values)
       IN IF isSkippedLine(line) THEN dataLoop(headers, dataLines, k + 1, testCases)
          ELSE IF isIncomplete(values, headers)
            THEN dataLoop(headers, dataLines, k + 1, testCases)
          ELSE IF hasRequiredFields(testCase)
            THEN dataLoop(headers, dataLines, k + 1, pushTestCase(testCases, testCase))
          ELSE dataLoop(headers, dataLines, k + 1, testCases)

\* lines 15-19: the predicate of findIndex
isHeaderLine(line) ==
  \/ includes(toLowerCase(line), <<"t","e","s","t","i","d">>)
  \/ includes(toLowerCase(line), <<"t","e","s","t"," ","i","d">>)
  \/ includes(toLowerCase(line), <<"t","i","t","l","e">>)

\* a variant that takes the last matching line (findLastIndex)
findHeaderIndex_Last(lines) ==
  IF \E k \in 1..Len(lines) : isHeaderLine(lines[k])
    THEN (CHOOSE k \in 1..Len(lines) :
            /\ isHeaderLine(lines[k])
            /\ \A j \in (k + 1)..Len(lines) : ~isHeaderLine(lines[j])) - 1
    ELSE -1

\* lines.findIndex(pred): 0-based index of the first match, -1 if none
findHeaderIndex(lines) ==
  IF \E k \in 1..Len(lines) : isHeaderLine(lines[k])
    THEN (CHOOSE k \in 1..Len(lines) :
            /\ isHeaderLine(lines[k])
            /\ \A j \in 1..(k - 1) : ~isHeaderLine(lines[j])) - 1
    ELSE -1

\* line 28
parseHeaders(headerLine) ==
  LET cells == split(headerLine, COMMA)
  IN [k \in 1..Len(cells) |-> removeQuotes(trim(cells[k]))]

\* JavaScript values passed as csvContent
JSString(s) == [type |-> "string", str |-> s, num |-> 0]

JSNull == [type |-> "null", str |-> <<>>, num |-> 0]

JSUndefined == [type |-> "undefined", str |-> <<>>, num |-> 0]

JSNumber(n) == [type |-> "number", str |-> <<>>, num |-> n]

JSObject == [type |-> "object", str |-> <<>>, num |-> 0]

\* !v
isFalsy(v) ==
  \/ v.type \in {"null", "undefined"}
  \/ v.type = "string" /\ v.str = <<>>
  \/ v.type = "number" /\ v.num = 0

\* the outcome of a call: a returned value, or an exception out of the call
Returned(v) == [threw |-> FALSE, value |-> v]

Thrown == [threw |-> TRUE, value |-> <<>>]

\* lines 10-106: the statements inside try; csvContent.trim() is a TypeError
\* for a value that is not a string
parseTryBlock(csvContent) ==
  IF csvContent.type /= "string" THEN Thrown
  ELSE LET lines == split(trim(csvContent.str), NL)
           headerIndex == findHeaderIndex(lines)
       IN IF headerIndex = -1 THEN Returned(<<>>)
          ELSE LET headers == parseHeaders(lines[headerIndex + 1])
                   dataLines == SubSeq(lines, headerIndex + 2, Len(lines))
               IN Returned(dataLoop(headers, dataLines, 1, <<>>))

\* a variant without the catch: the error leaves the call
catchBlock_Rethrow(outcome) == outcome

\* lines 108-111: catch (error) { return []; }
catchBlock(outcome) == IF outcome.threw THEN Returned(<<>>) ELSE outcome

parseCSVToTestCases(csvContent) ==
  IF isFalsy(csvContent) THEN Returned(<<>>)
  ELSE catchBlock(parseTryBlock(csvContent))

\* ---------------------------------------------- zephyrExporter.js:100-182
\* `${n}` for a non-negative integer
RECURSIVE numberToString(_)
numberToString(n) ==
  IF n < 10 THEN <<Digits[n + 1]>>
  ELSE numberToString(n \div 10) \o <<Digits[(n % 10) + 1]>>

\* testCase[key] || d for a property that holds a string when it is set
orDefault(testCase, key, d) ==
  IF hasProp(testCase, key) /\ testCase[key] /= <<>> THEN testCase[key] ELSE d

\* `${testCase[key]}`: a property that was never set renders as 'undefined'
template(testCase, key) ==
  IF hasProp(testCase, key) THEN testCase[key] ELSE <<"u","n","d","e","f","i","n","e","d">>

\* a variant that pushes the type before the category
formatLabels_TypeFirst(testCase) ==
  LET withType == IF orDefault(testCase, K_type, <<>>) /= <<>>
                    THEN <<testCase[K_type]>> ELSE <<>>
      labels == IF orDefault(testCase, K_category, <<>>) /= <<>>
                  THEN Append(withType, testCase[K_category])
                  ELSE withType
  IN join(labels, <<","," ">>)

\* lines 105-117
formatLabels(testCase) ==
  LET withCategory == IF orDefault(testCase, K_category, <<>>) /= <<>>
                        THEN <<testCase[K_category]>> ELSE <<>>
      labels == IF orDefault(testCase, K_type, <<>>) /= <<>>
                  THEN Append(withCategory, testCase[K_type])
                  ELSE withCategory
  IN join(labels, <<","," ">>)

\* a variant without the five-minute minimum
estimateTime_NoMinimum(testCase) ==
  IF ~hasProp(testCase, K_steps) THEN <<>>
  ELSE LET estimatedMinutes == Len(testCase[K_steps]) * 2
       IN numberToString(estimatedMinutes) \o <<"m">>

\* lines 124-139; steps, when set, is an array (csvParser.js:65-71), and an
\* array is truthy even when it is empty
estimateTime(testCase) ==
  IF ~hasProp(testCase, K_steps) THEN <<>>
  ELSE LET stepCount == Len(testCase[K_steps])
           estimatedMinutes == IF stepCount * 2 > 5 THEN stepCount * 2 ELSE 5
           hours == estimatedMinutes \div 60
           minutes == estimatedMinutes % 60
       IN IF estimatedMinutes >= 60
            THEN IF minutes > 0
                   THEN numberToString(hours) \o <<"h"," ">>
                          \o numberToString(minutes) \o <<"m">>
                   ELSE numberToString(hours) \o <<"h">>
            ELSE numberToString(estimatedMinutes) \o <<"m">>

\* a variant that looks for the 'Then' words before the 'When' words
bddKeyword_ThenFirst(stepText, index) ==
  LET lower == toLowerCase(stepText)
  IN IF index = 0 THEN <<"G","i","v","e","n"," ">>
     ELSE IF \/ includes(lower, <<"v","e","r","i","f","y">>)
             \/ includes(lower, <<"s","h","o","u","l","d">>)
             \/ includes(lower, <<"c","h","e","c","k">>)
       THEN <<"T","h","e","n"," ">>
     ELSE IF \/ includes(lower, <<"c","l","i","c","k">>)
             \/ includes(lower, <<"e","n","t","e","r">>)
             \/ includes(lower, <<"s","e","l","e","c","t">>)
             \/ includes(lower, <<"s","u","b","m","i","t">>)
       THEN <<"W","h","e","n"," ">>
     ELSE <<"A","n","d"," ">>

\* lines 157-170: the keyword of the step at a 0-based index
bddKeyword(stepText, index) ==
  LET lower == toLowerCase(stepText)
  IN IF index = 0 THEN <<"G","i","v","e","n"," ">>
     ELSE IF \/ includes(lower, <<"c","l","i","c","k">>)
             \/ includes(lower, <<"e","n","t","e","r">>)
             \/ includes(lower, <<"s","e","l","e","c","t">>)
             \/ includes(lower, <<"s","u","b","m","i","t">>)
       THEN <<"W","h","e","n"," ">>
     ELSE IF \/ includes(lower, <<"v","e","r","i","f","y">>)
             \/ includes(lower, <<"s","h","o","u","l","d">>)
             \/ includes(lower, <<"c","h","e","c","k">>)
       THEN <<"T","h","e","n"," ">>
     ELSE <<"A","n","d"," ">>

\* lines 155-173: testCase.steps.forEach from a 0-based index on
RECURSIVE bddStepsFrom(_, _)
bddStepsFrom(stepList, index) ==
  IF index >= Len(stepList) THEN <<>>
  ELSE LET stepText == trim(stepList[index + 1])
       IN <<" "," ">> \o bddKeyword(stepText, index) \o stepText \o <<NL>>
            \o bddStepsFrom(stepList, index + 1)

\* lines 146-182
generateBDDScript(testCase) ==
  IF ~hasProp(testCase, K_steps) THEN <<>>
  ELSE LET scenario == <<"S","c","e","n","a","r","i","o",":"," ">>
                         \o orDefault(testCase, K_title, <<"T","e","s","t"," ","S","c","e","n","a","r","i","o">>)
                         \o <<NL>>
           bddSteps == bddStepsFrom(testCase[K_steps], 0)
           expected == orDefault(testCase, K_expected, <<>>)
       IN IF expected /= <<>>
            THEN scenario \o bddSteps \o <<" "," ","T","h","e","n"," ">> \o expected \o <<NL>>
            ELSE scenario \o bddSteps

\* ------------------------------------------------ zephyrExporter.js:11-80
zephyrHeaders ==
  << <<"N","a","m","e">>, <<"S","t","a","t","u","s">>, <<"P","r","e","c","o","n","d","i","t","i","o","n">>, <<"O","b","j","e","c","t","i","v","e">>, <<"F","o","l","d","e","r">>,
     <<"P","r","i","o","r","i","t","y">>, <<"C","o","m","p","o","n","e","n","t">>, <<"L","a","b","e","l","s">>, <<"O","w","n","e","r">>,
     <<"E","s","t","i","m","a","t","e","d"," ","T","i","m","e">>, <<"C","o","v","e","r","a","g","e"," ","(","I","s","s","u","e","s",")">>, <<"C","o","v","e","r","a","g","e"," ","(","P","a","g","e","s",")">>,
     <<"T","e","s","t"," ","S","c","r","i","p","t"," ","(","S","t","e","p","-","b","y","-","S","t","e","p",")"," ","-"," ","S","t","e","p">>,
     <<"T","e","s","t"," ","S","c","r","i","p","t"," ","(","S","t","e","p","-","b","y","-","S","t","e","p",")"," ","-"," ","T","e","s","t"," ","D","a","t","a">>,
     <<"T","e","s","t"," ","S","c","r","i","p","t"," ","(","S","t","e","p","-","b","y","-","S","t","e","p",")"," ","-"," ","E","x","p","e","c","t","e","d"," ","R","e","s","u","l","t">>,
     <<"T","e","s","t"," ","S","c","r","i","p","t"," ","(","P","l","a","i","n"," ","T","e","x","t",")">>, <<"T","e","s","t"," ","S","c","r","i","p","t"," ","(","B","D","D",")">> >>

\* lines 36-38: the steps numbered from 1 and joined with newlines
numberedSteps(testCase) ==
  IF hasProp(testCase, K_steps)
    THEN join([k \in 1..Len(testCase[K_steps]) |->
                 numberToString(k) \o <<"."," ">> \o testCase[K_steps][k]], <<NL>>)
    ELSE <<>>

\* lines 34-71: the row of one test case
zephyrRow(testCase) ==
  LET stepText == numberedSteps(testCase)
      testData == orDefault(testCase, <<"t","e","s","t","D","a","t","a">>, <<>>)
      expectedResult == orDefault(testCase, K_expected, <<>>)
      plainTextScript == <<"S","t","e","p","s",":","\n">> \o stepText
                           \o <<"\n","\n","E","x","p","e","c","t","e","d"," ","R","e","s","u","l","t",":","\n">> \o expectedResult
      bddScript == generateBDDScript(testCase)
  IN << escapeCSVField(orDefault(testCase, K_title, <<>>)),
        <<"A","p","p","r","o","v","e","d">>,
        <<>>,
        escapeCSVField(orDefault(testCase, K_title, <<>>)),
        <<"/","T","e","s","t"," ","C","a","s","e","s">>,
        orDefault(testCase, K_priority, <<"M","e","d","i","u","m">>),
        orDefault(testCase, K_category, <<"F","u","n","c","t","i","o","n","a","l">>),
        formatLabels(testCase),
        <<>>,
        estimateTime(testCase),
        <<>>,
        <<>>,
        escapeCSVField(stepText),
        escapeCSVField(testData),
        escapeCSVField(expectedResult),
        escapeCSVField(plainTextScript),
        escapeCSVField(bddScript) >>

\* a variant that emits the rows last record first
convertToZephyrCSV_Reversed(testCases) ==
  join(<<join(zephyrHeaders, <<COMMA>>)>>
         \o [k \in 1..Len(testCases) |->
               join(zephyrRow(testCases[Len(testCases) + 1 - k]), <<COMMA>>)],
       <<NL>>)

\* lines 11-80
convertToZephyrCSV(testCases) ==
  join(<<join(zephyrHeaders, <<COMMA>>)>>
         \o [k \in 1..Len(testCases) |->
               join(zephyrRow(testCases[k]), <<COMMA>>)],
       <<NL>>)

\* ------------------------------------------------- App (part_001:450-598)
\* the app's quality report: null, or the individual scores it carries
NoReport == [present |-> FALSE, individual_scores |-> <<>>]

Report(scores) == [present |-> TRUE, individual_scores |-> scores]

ScoreOf(id, score) == [test_id |-> id, total_score |-> score]

\* qualityReport?.individual_scores?.find(s => s.test_id === id)?.total_score || 0
findScore(qualityReport, id) ==
  LET scores == qualityReport.individual_scores
      hits == {k \in 1..Len(scores) : scores[k].test_id = id}
  IN IF ~qualityReport.present \/ hits = {} THEN Num(0, 0)
     ELSE scores[CHOOSE k \in hits : \A j \in hits : k <= j].total_score

\* score.toFixed(1) for a score with at most one decimal
toFixed1(score) ==
  LET tenths == IF score.e = 0 THEN score.n * 10 ELSE score.n
  IN numberToString(tenths \div 10) \o <<".">> \o numberToString(tenths % 10)

\* a variant that renders every score, zero included
qualityCell_NoThreshold(score) == toFixed1(score) \o <<"/","1","0">>

\* qualityScore > 0 ? `${qualityScore.toFixed(1)}/10` : 'N/A'
qualityCell(score) ==
  IF score.n > 0 THEN toFixed1(score) \o <<"/","1","0">> ELSE <<"N","/","A">>

\* an element of an array under join(','): undefined joins as ''
element(testCase, key) ==
  IF hasProp(testCase, key) THEN testCase[key] ELSE <<>>

plainHeaders ==
  << <<"T","e","s","t"," ","I","D">>, <<"T","i","t","l","e">>, <<"S","t","e","p","s">>, <<"E","x","p","e","c","t","e","d"," ","R","e","s","u","l","t">>, <<"P","r","i","o","r","i","t","y">>,
     <<"Q","u","a","l","i","t","y"," ","S","c","o","r","e">> >>

\* a variant that joins the steps with ', '
plainSteps_Comma(testCase) ==
  IF hasProp(testCase, K_steps) THEN join(testCase[K_steps], <<","," ">>)
  ELSE <<"u","n","d","e","f","i","n","e","d">>

\* lines 555-557 as a template argument
plainSteps(testCase) ==
  IF hasProp(testCase, K_steps) THEN join(testCase[K_steps], <<" ","|"," ">>)
  ELSE <<"u","n","d","e","f","i","n","e","d">>

\* lines 550-566: the row of one test case
plainRow(testCase, qualityReport) ==
  << element(testCase, K_id),
     <<QUOTE>> \o template(testCase, K_title) \o <<QUOTE>>,
     <<QUOTE>> \o plainSteps(testCase) \o <<QUOTE>>,
     <<QUOTE>> \o template(testCase, K_expected) \o <<QUOTE>>,
     element(testCase, K_priority),
     qualityCell(findScore(qualityReport, element(testCase, K_id))) >>

\* lines 547-567: content after the rows from index k on are added
RECURSIVE plainRowsFrom(_, _, _)
plainRowsFrom(testCases, qualityReport, k) ==
  IF k > Len(testCases) THEN <<>>
  ELSE join(plainRow(testCases[k], qualityReport), <<COMMA>>) \o <<NL>>
         \o plainRowsFrom(testCases, qualityReport, k + 1)

plainCSV(testCases, qualityReport) ==
  join(plainHeaders, <<COMMA>>) \o <<NL>>
    \o plainRowsFrom(testCases, qualityReport, 1)

worksheetHeaders ==
  << <<"T","e","s","t"," ","I","D">>, <<"T","i","t","l","e">>, <<"S","t","e","p","s">>, <<"E","x","p","e","c","t","e","d"," ","R","e","s","u","l","t">>, <<"P","r","i","o","r","i","t","y">>,
     <<"C","a","t","e","g","o","r","y">>, <<"T","y","p","e">>, <<"Q","u","a","l","i","t","y"," ","S","c","o","r","e">> >>

\* lines 481-499: the worksheet row of one test case; a value that was
\* never set leaves its cell empty
worksheetRow(testCase, qualityReport) ==
  << element(testCase, K_id),
     element(testCase, K_title),
     IF hasProp(testCase, K_steps) THEN join(testCase[K_steps], <<NL>>)
                                   ELSE <<>>,
     element(testCase, K_expected),
     element(testCase, K_priority),
     orDefault(testCase, K_category, <<"F","u","n","c","t","i","o","n","a","l">>),
     orDefault(testCase, K_type, <<"S","m","o","k","e">>),
     qualityCell(findScore(qualityReport, element(testCase, K_id))) >>

\* lines 477-500
worksheetData(testCases, qualityReport) ==
  <<worksheetHeaders>>
    \o [k \in 1..Len(testCases) |-> worksheetRow(testCases[k], qualityReport)]

\* ------------------------------------------------------------ input sets
\* The generator's output is banner text, then a header, then rows.
HeaderLine == <<"T","e","s","t","I","D",",","T","i","t","l","e",",","S","t","e","p","s">>

BannerLine == <<"B","a","n","n","e","r">>

\* lines that come before the header: banner text, a blank line
BannerPool == { BannerLine, <<" ">> }

\* lines that come after the header: a complete row, a truncated row, a
\* blank line, a separator, a METADATA line, rows lacking id or title, a
\* row with a quoted comma and an unterminated quote
RowPool ==
  { <<"T","1",",","L","o","g","i","n",",","a","|","b">>,
    <<"T","2",",","x">>,
    <<" ">>,
    <<"-","-","-",",","A",",","b">>,
    <<"M",",","M","E","T","A","D","A","T","A",",","x">>,
    <<",","N","o","I","d",",","s">>,
    <<"T","3",","," ",",","s">>,
    <<"T","4",",","\"","a",",","b","\"",",","\"","x">> }

\* the lines that can follow the lines emitted so far
NextLines(ls) ==
  IF \E k \in 1..Len(ls) : ls[k] = HeaderLine
    THEN RowPool \cup {HeaderLine}
    ELSE BannerPool \cup {HeaderLine}

\* arguments that are not text
NonStringArgs == {JSNull, JSUndefined, JSNumber(0), JSNumber(5), JSObject}

LineAlphabet == {"a", ",", "\"", " "}

FieldAlphabet == {"a", ",", "\"", " ", "\n"}

StepAlphabet == {"a", " ", "|"}

MaxStepLen == 2

\* (header name, cell) pairs a row is assembled from: every alias in some
\* letter case with an empty and a filled cell, and columns outside the
\* alias table
CellPool ==
  { [header |-> <<"T","e","s","t","I","D">>, value |-> <<"T","1">>],
    [header |-> <<"t","e","s","t"," ","i","d">>, value |-> <<>>],
    [header |-> <<"T","I","T","L","E">>, value |-> <<"L","o","g","i","n">>],
    [header |-> <<"S","t","e","p","s">>, value |-> <<"a","|","b">>],
    [header |-> <<"S","T","E","P","S">>, value |-> <<>>],
    [header |-> <<"E","x","p","e","c","t","e","d"," ","R","e","s","u","l","t">>, value |-> <<"o","k">>],
    [header |-> <<"E","X","P","E","C","T","E","D">>, value |-> <<>>],
    [header |-> <<"P","r","i","o","r","i","t","y">>, value |-> <<>>],
    [header |-> <<"P","R","I","O","R","I","T","Y">>, value |-> <<"H","i","g","h">>],
    [header |-> <<"C","a","t","e","g","o","r","y">>, value |-> <<>>],
    [header |-> <<"c","a","t","e","g","o","r","y">>, value |-> <<"U","I">>],
    [header |-> <<"T","y","p","e">>, value |-> <<>>],
    [header |-> <<"T","Y","P","E">>, value |-> <<"U","n","i","t">>],
    [header |-> <<"Q","u","a","l","i","t","y"," ","S","c","o","r","e">>, value |-> <<"7",".","5","/","1","0">>],
    [header |-> <<"Q","U","A","L","I","T","Y"," ","S","C","O","R","E">>, value |-> <<"N","/","A">>],
    [header |-> <<"T","e","s","t"," ","D","a","t","a">>, value |-> <<"d"," ","1">>],
    [header |-> <<"I","D">>, value |-> <<"Z","9">>] }

ScoreAlphabet == {"7", "0", ".", "x"}

\* the header of a row with an id, a title and a quality score
ScoredRowHeaders == << <<"T","e","s","t","I","D">>, <<"T","i","t","l","e">>, <<"Q","u","a","l","i","t","y"," ","S","c","o","r","e">> >>

StringsOver(alphabet, n) == UNION {[1..k -> alphabet] : k \in 0..n}

SeqsOver(S, n) == UNION {[1..k -> S] : k \in 0..n}

\* steps of the records handed to generateBDDScript
BddStepPool ==
  { <<"N","a","v","i","g","a","t","e"," ","t","o"," ","p","a","g","e">>, <<"C","l","i","c","k"," ","s","u","b","m","i","t">>, <<"V","e","r","i","f","y"," ","s","u","c","c","e","s","s"," ","m","e","s","s","a","g","e">>,
    <<" ","V","e","r","i","f","y"," ","c","l","i","c","k"," ">>, <<"E","N","T","E","R"," ","n","a","m","e">>, <<"S","e","l","e","c","t"," ","x">>, <<"I","t"," ","s","h","o","u","l","d">>,
    <<"c","h","e","c","k"," ","y">> }

\* those records without their steps: title and expected set, never set,
\* or empty
BddRecords ==
  { setProp(setProp(EmptyObject, K_title, <<"L","o","g","i","n">>), K_expected, <<"o","k">>),
    EmptyObject,
    setProp(setProp(EmptyObject, K_title, <<>>), K_expected, <<>>) }

\* texts the generator returns as result.csvContent
EndToEndText ==
  join(<< <<"T","e","s","t","I","D",",","T","i","t","l","e",",","S","t","e","p","s",",","E","x","p","e","c","t","e","d"," ","R","e","s","u","l","t",",","P","r","i","o","r","i","t","y">>,
          <<"T","C","-","0","0","1",",","L","o","g","i","n"," ","w","o","r","k","s",",","\"","E","n","t","e","r"," ","u","s","e","r","|","C","l","i","c","k"," ","l","o","g","i","n","\"",",","U","s","e","r"," ","i","s"," ","l","o","g","g","e","d"," ","i","n",",","H","i","g","h">> >>,
       <<NL>>)

QuotedTitleText ==
  join(<< <<"T","e","s","t","I","D",",","T","i","t","l","e",",","S","t","e","p","s",",","E","x","p","e","c","t","e","d",",","P","r","i","o","r","i","t","y">>,
          <<"T","1",",","\"","a"," ","\"","\"","b","\"","\"","\"",",","s",",","o","k",",","H","i","g","h">> >>, <<NL>>)

LabelledText ==
  join(<< <<"T","e","s","t","I","D",",","T","i","t","l","e",",","S","t","e","p","s",",","P","r","i","o","r","i","t","y",",","C","a","t","e","g","o","r","y",",","T","y","p","e">>,
          <<"T","1",",","L","o","g","i","n",",","a","|","b",",",",","U","I",",","U","n","i","t">>,
          <<"T","2",",","L","o","g","o","u","t",",",",","H","i","g","h",",",",">> >>, <<NL>>)

\* a text with a Quality Score column
ScoredText ==
  join(<< <<"T","e","s","t"," ","I","D",",","T","i","t","l","e",",","Q","u","a","l","i","t","y"," ","S","c","o","r","e">>, <<"T","1",",","L","o","g","i","n",",","7",".","5","/","1","0">> >>, <<NL>>)

GeneratedTexts ==
  { EndToEndText, QuotedTitleText, LabelledText, ScoredText, <<"n","o","n","e">> }

\* a text whose Steps cell is quoted and runs over two lines
MultiLineText ==
  join(<< <<"T","e","s","t","I","D",",","T","i","t","l","e",",","S","t","e","p","s">>, <<"T","1",",","L","o","g","i","n",",","\"","1","."," ","a">>, <<"2","."," ","b","\"">> >>, <<NL>>)

\* a text whose header has a quoted column name with a comma in it
QuotedHeaderText ==
  join(<< <<"T","e","s","t","I","D",",","\"","T","i","t","l","e",","," ","l","o","n","g","\"",",","S","t","e","p","s">>, <<"T","1",",","L","o","g","i","n",",","a","|","b">> >>, <<NL>>)

\* texts with quoted cells that span a comma or a line break
QuotedTexts == { MultiLineText, QuotedHeaderText }

\* the category and type values handed to formatLabels
LabelPool == { <<>>, <<"U","I">>, <<"A","P","I">>, <<"U","n","i","t">> }

\* result.qualityReport of the generator: absent, or a report
BackendReports ==
  { NoReport,
    Report(<< ScoreOf(<<"T","C","-","0","0","1">>, Num(85, 1)) >>),
    Report(<< ScoreOf(<<"T","1">>, Num(0, 0)), ScoreOf(<<"T","2">>, Num(7, 0)) >>) }

\* 7.0 + Math.random() * 2, sampled
FallbackScores == { Num(7, 0), Num(85, 1) }

\* --------------------------------- App configuration (part_001:55-157)
\* getConfiguration has not settled yet
Pending == [kind |-> "pending"]

\* lines 79-145: the status set for a loaded configuration; an unset
\* property of the configuration is the empty string here (both are falsy)
statusFor(config) ==
  LET provider == IF config.provider /= <<>> THEN config.provider
                  ELSE <<"o","p","e","n","a","i">>
      hasOpenAI == /\ config.openaiApiKey /= <<>>
                   /\ trim(config.openaiApiKey) /= <<>>
                   /\ config.openaiApiKey /= <<"y","o","u","r","-","o","p","e","n","a","i","-","a","p","i","-","k","e","y","-","h","e","r","e">>
                   /\ Len(config.openaiApiKey) > 10
      hasAnthropic == /\ config.anthropicApiKey /= <<>>
                      /\ trim(config.anthropicApiKey) /= <<>>
                      /\ Len(config.anthropicApiKey) > 10
      hasGoogle == /\ config.googleApiKey /= <<>>
                   /\ trim(config.googleApiKey) /= <<>>
                   /\ Len(config.googleApiKey) > 10
      hasOllama == /\ config.ollamaHost /= <<>>
                   /\ trim(config.ollamaHost) /= <<>>
                   /\ \/ startsWith(config.ollamaHost, <<"h","t","t","p",":","/","/">>)
                      \/ startsWith(config.ollamaHost, <<"h","t","t","p","s",":","/","/">>)
                   /\ config.ollamaVerified = TRUE
      configured == hasOpenAI \/ hasAnthropic \/ hasGoogle \/ hasOllama
      currentProviderConfigured ==
        \/ provider = <<"o","p","e","n","a","i">> /\ hasOpenAI
        \/ provider = <<"a","n","t","h","r","o","p","i","c">> /\ hasAnthropic
        \/ provider = <<"g","o","o","g","l","e">> /\ hasGoogle
        \/ provider = <<"o","l","l","a","m","a">> /\ hasOllama
      message ==
        IF ~configured
          THEN <<"L","L","M"," ","A","P","I"," ","k","e","y"," ","n","o","t"," ","c","o","n","f","i","g","u","r","e","d","."," ","C","l","i","c","k"," ","C","o","n","f","i","g","u","r","a","t","i","o","n"," ","t","o"," ","s","e","t"," ","u","p",".">>
        ELSE IF ~currentProviderConfigured
          THEN <<"S","e","l","e","c","t","e","d"," ","p","r","o","v","i","d","e","r"," ","(">> \o provider
                 \o <<")"," ","n","o","t"," ","c","o","n","f","i","g","u","r","e","d","."," ","P","l","e","a","s","e"," ","c","o","n","f","i","g","u","r","e"," ","i","t"," ","o","r"," ","s","w","i","t","c","h"," ","t","o"," ","a","n","o","t","h","e","r"," ","p","r","o","v","i","d","e","r",".">>
        ELSE <<>>
  IN [isConfigured |-> configured, message |-> message, provider |-> provider]

\* the configurations getConfiguration can load
Configurations ==
  [provider : {<<>>, <<"o","p","e","n","a","i">>, <<"a","n","t","h","r","o","p","i","c">>, <<"g","o","o","g","l","e">>, <<"o","l","l","a","m","a">>},
   openaiApiKey : {<<>>, <<"y","o","u","r","-","o","p","e","n","a","i","-","a","p","i","-","k","e","y","-","h","e","r","e">>, <<"s","k","-","0","1","2","3","4","5","6","7","8","9">>},
   anthropicApiKey : {<<>>, <<"s","h","o","r","t">>, <<"s","k","-","a","n","t","-","0","1","2","3","4","5","6">>},
   googleApiKey : {<<>>, <<" "," "," "," "," "," "," "," "," "," "," "," ">>, <<"A","I","z","a","0","1","2","3","4","5","6","7","8","9">>},
   ollamaHost : {<<>>, <<"l","o","c","a","l","h","o","s","t",":","1","1","4","3","4">>, <<"h","t","t","p",":","/","/","l","o","c","a","l","h","o","s","t",":","1","1","4","3","4">>},
   ollamaVerified : BOOLEAN]

\* what the awaited getConfiguration can settle with: a rejection, no
\* result, a failed load (part_003:726-735), or a loaded configuration
ConfigResults ==
  { [kind |-> "throws"], [kind |-> "null"], [kind |-> "failed"] }
    \cup { [kind |-> "loaded", config |-> c] : c \in Configurations }

\* ---------------------------------------------------------------- state
VARIABLES
  pc,          \* what has been done: "idle" before any call
  lines,       \* the lines of the text assembled so far
  csvContent,  \* the argument of the parseCSVToTestCases call
  outcome,     \* what that call did: [threw, value]
  line,        \* parseCSVLine: its argument
  result,      \* parseCSVLine: fields closed so far
  current,     \* parseCSVLine: the field being accumulated
  inQuotes,    \* parseCSVLine: inside a quoted span
  i,           \* parseCSVLine: scan index (0-based)
  fields,      \* parseCSVLine: the returned array
  field,       \* escapeCSVField: its argument
  escaped,     \* TRUE when line is escapeCSVField(field)
  steps,       \* an array of steps
  cell,        \* the Steps cell holding them
  decoded,     \* the steps decoded from the cell
  headers,     \* parseCSVToTestCases: the column names of the row being mapped
  values,      \* parseCSVToTestCases: the cells of that row
  testCase,    \* parseCSVToTestCases: the object built from them;
               \* zephyrExporter: the test case handed to a formatter
  formatted,   \* zephyrExporter: the string a formatter returned
  generatedCases,  \* App: the generatedCases state
  qualityReport,   \* App: the qualityReport state
  exported,    \* App: what the last export handler did
  llmConfigStatus,  \* App: the llmConfigStatus state
  configLoading,    \* App: the configLoading state
  configResult      \* App: what getConfiguration settled with, once it has

vars == <<pc, lines, csvContent, outcome, line, result, current, inQuotes, i,
          fields, field, escaped, steps, cell, decoded, headers, values,
          testCase, formatted, generatedCases, qualityReport, exported,
          llmConfigStatus, configLoading, configResult>>

parseVars == <<lines, csvContent, outcome>>

scanVars == <<line, result, current, inQuotes, i, fields, field, escaped>>

stepsVars == <<steps, cell, decoded>>

rowVars == <<headers, values, testCase>>

appVars == <<generatedCases, qualityReport, exported>>

configVars == <<llmConfigStatus, configLoading, configResult>>

\* what an export handler did: the box it showed ('' for none), the level
\* of the log entry it added ('' for none), what it handed to writeFile,
\* the error text writeFile returned, and the text of the error log entry
\* (after its leading symbol) and of the error box
NotExported ==
  [format |-> "", box |-> "", log |-> "", written |-> FALSE,
   content |-> <<>>, sheet |-> <<>>,
   writeError |-> <<>>, logText |-> <<>>, message |-> <<>>]

Init ==
  /\ pc = "idle"
  /\ lines = <<>>
  /\ csvContent = JSUndefined
  /\ outcome = Returned(<<>>)
  /\ line = <<>>
  /\ result = <<>>
  /\ current = <<>>
  /\ inQuotes = FALSE
  /\ i = 0
  /\ fields = <<>>
  /\ field = <<>>
  /\ escaped = FALSE
  /\ steps = <<>>
  /\ cell = <<>>
  /\ decoded = <<>>
  /\ headers = <<>>
  /\ values = <<>>
  /\ testCase = EmptyObject
  /\ formatted = <<>>
  /\ generatedCases = <<>>
  /\ qualityReport = NoReport
  /\ exported = NotExported
  /\ llmConfigStatus = [isConfigured |-> FALSE,
                        message |-> <<"L","o","a","d","i","n","g"," ","c","o","n","f","i","g","u","r","a","t","i","o","n",".",".",".">>,
                        provider |-> <<>>]
  /\ configLoading = TRUE
  /\ configResult = Pending

\* the generator emits one more line of output
AppendLine ==
  /\ pc \in {"idle", "input"}
  /\ Len(lines) < MaxLines
  /\ \E l \in NextLines(lines) : lines' = Append(lines, l)
  /\ pc' = "input"
  /\ UNCHANGED <<csvContent, outcome>>
  /\ UNCHANGED scanVars
  /\ UNCHANGED stepsVars
  /\ UNCHANGED rowVars /\ UNCHANGED formatted /\ UNCHANGED appVars
  /\ UNCHANGED configVars

\* parseCSVToTestCases(csvContent), on the assembled text or on a non-text value
ParseCSV ==
  /\ pc \in {"idle", "input"}
  /\ \E arg \in {JSString(join(lines, <<NL>>))}
                  \cup (IF pc = "idle" THEN NonStringArgs ELSE {}) :
       /\ csvContent' = arg
       /\ outcome' = parseCSVToTestCases(arg)
  /\ pc' = "parsed"
  /\ UNCHANGED lines
  /\ UNCHANGED scanVars
  /\ UNCHANGED stepsVars
  /\ UNCHANGED rowVars /\ UNCHANGED formatted /\ UNCHANGED appVars
  /\ UNCHANGED configVars

\* parseCSVToTestCases(csvContent) on a text with quoted cells
ParseQuotedText ==
  /\ pc = "idle"
  /\ \E text \in QuotedTexts :
       /\ csvContent' = JSString(text)
       /\ outcome' = parseCSVToTestCases(JSString(text))
  /\ pc' = "text"
  /\ UNCHANGED lines
  /\ UNCHANGED scanVars
  /\ UNCHANGED stepsVars
  /\ UNCHANGED rowVars /\ UNCHANGED formatted /\ UNCHANGED appVars
  /\ UNCHANGED configVars

\* checkLLMConfiguration() is called and awaits getConfiguration: on mount
\* (part_001:219), or after setConfigLoading(true) (lines 658-663, 1274-1275)
CheckLLMConfiguration ==
  /\ pc \in {"idle", "checked"}
  /\ configLoading' = IF pc = "idle" THEN configLoading ELSE TRUE
  /\ configResult' = Pending
  /\ pc' = "checking"
  /\ UNCHANGED llmConfigStatus
  /\ UNCHANGED parseVars /\ UNCHANGED scanVars /\ UNCHANGED stepsVars
  /\ UNCHANGED rowVars /\ UNCHANGED formatted /\ UNCHANGED appVars

\* part_001:66-156: getConfiguration settles and the function runs on
GetConfigurationSettles ==
  /\ pc = "checking"
  /\ \E settled \in ConfigResults :
       /\ configResult' = settled
       /\ CASE settled.kind = "throws" ->
                 /\ llmConfigStatus' =
                      [isConfigured |-> FALSE,
                       message |-> <<"C","o","n","f","i","g","u","r","a","t","i","o","n"," ","e","r","r","o","r","."," ","C","l","i","c","k"," ","C","o","n","f","i","g","u","r","a","t","i","o","n"," ","t","o"," ","s","e","t"," ","u","p",".">>,
                       provider |-> <<>>]
                 /\ configLoading' = FALSE
            [] settled.kind \in {"null", "failed"} ->
                 /\ llmConfigStatus' =
                      [isConfigured |-> FALSE,
                       message |-> <<"U","n","a","b","l","e"," ","t","o"," ","l","o","a","d"," ","c","o","n","f","i","g","u","r","a","t","i","o","n","."," ","C","l","i","c","k"," ","C","o","n","f","i","g","u","r","a","t","i","o","n"," ","t","o"," ","s","e","t"," ","u","p",".">>,
                       provider |-> <<>>]
                 /\ UNCHANGED configLoading
            [] settled.kind = "loaded" ->
                 /\ llmConfigStatus' = statusFor(settled.config)
                 /\ configLoading' = FALSE
  /\ pc' = "checked"
  /\ UNCHANGED parseVars /\ UNCHANGED scanVars /\ UNCHANGED stepsVars
  /\ UNCHANGED rowVars /\ UNCHANGED formatted /\ UNCHANGED appVars

\* parseCSVLine(line) is called: lines 120-123
ScanLine ==
  /\ pc = "idle"
  /\ \E l \in StringsOver(LineAlphabet, MaxLineLen) : line' = l
  /\ result' = parseCSVLineInit.result
  /\ current' = parseCSVLineInit.current
  /\ inQuotes' = parseCSVLineInit.inQuotes
  /\ i' = parseCSVLineInit.i
  /\ pc' = "scan"
  /\ UNCHANGED <<fields, field, escaped>>
  /\ UNCHANGED parseVars
  /\ UNCHANGED stepsVars
  /\ UNCHANGED rowVars /\ UNCHANGED formatted /\ UNCHANGED appVars
  /\ UNCHANGED configVars

\* parseCSVLine(escapeCSVField(field))
ScanEscapedField ==
  /\ pc = "idle"
  /\ \E s \in StringsOver(FieldAlphabet, MaxFieldLen) :
       /\ field' = s
       /\ line' = escapeCSVField(s)
  /\ escaped' = TRUE
  /\ result' = parseCSVLineInit.result
  /\ current' = parseCSVLineInit.current
  /\ inQuotes' = parseCSVLineInit.inQuotes
  /\ i' = parseCSVLineInit.i
  /\ pc' = "scan"
  /\ UNCHANGED fields
  /\ UNCHANGED parseVars
  /\ UNCHANGED stepsVars
  /\ UNCHANGED rowVars /\ UNCHANGED formatted /\ UNCHANGED appVars
  /\ UNCHANGED configVars

\* one iteration of the while loop of parseCSVLine
ScanStep ==
  /\ pc = "scan"
  /\ i < Len(line)
  /\ LET st == parseCSVLineStep(line,
                 [result |-> result, current |-> current,
                  inQuotes |-> inQuotes, i |-> i])
     IN /\ result' = st.result
        /\ current' = st.current
        /\ inQuotes' = st.inQuotes
        /\ i' = st.i
  /\ UNCHANGED <<pc, line, fields, field, escaped>>
  /\ UNCHANGED parseVars
  /\ UNCHANGED stepsVars
  /\ UNCHANGED rowVars /\ UNCHANGED formatted /\ UNCHANGED appVars
  /\ UNCHANGED configVars

\* the loop of parseCSVLine exits: lines 150-153
ScanReturn ==
  /\ pc = "scan"
  /\ ~(i < Len(line))
  /\ fields' = parseCSVLineReturn(
                 [result |-> result, current |-> current,
                  inQuotes |-> inQuotes, i |-> i])
  /\ pc' = "scanned"
  /\ UNCHANGED <<line, result, current, inQuotes, i, field, escaped>>
  /\ UNCHANGED parseVars
  /\ UNCHANGED stepsVars
  /\ UNCHANGED rowVars /\ UNCHANGED formatted /\ UNCHANGED appVars
  /\ UNCHANGED configVars

\* an array of steps is written to a Steps cell with join('|') and decoded
DecodeStepsCell ==
  /\ pc = "idle"
  /\ \E ss \in SeqsOver(StringsOver(StepAlphabet, MaxStepLen), MaxSteps) :
       /\ steps' = ss
       /\ cell' = join(ss, <<PIPE>>)
       /\ decoded' = decodeSteps(join(ss, <<PIPE>>))
  /\ pc' = "decoded"
  /\ UNCHANGED parseVars
  /\ UNCHANGED scanVars
  /\ UNCHANGED rowVars /\ UNCHANGED formatted /\ UNCHANGED appVars
  /\ UNCHANGED configVars

\* one pass of headers.forEach (lines 51-94): the next column of the row
MapColumn ==
  /\ pc \in {"idle", "row"}
  /\ Len(headers) < MaxColumns
  /\ \E c \in CellPool :
       /\ headers' = Append(headers, c.header)
       /\ values' = Append(values, c.value)
       /\ testCase' = mapHeader(testCase, c.header, c.value)
  /\ pc' = "row"
  /\ UNCHANGED parseVars
  /\ UNCHANGED scanVars
  /\ UNCHANGED stepsVars
  /\ UNCHANGED formatted /\ UNCHANGED appVars
  /\ UNCHANGED configVars

\* lines 50-94 for a row with an id, a title and any Quality Score cell
MapScoredRow ==
  /\ pc = "idle"
  /\ \E c \in StringsOver(ScoreAlphabet, MaxScoreLen) :
       /\ headers' = ScoredRowHeaders
       /\ values' = << <<"T","1">>, <<"L","o","g","i","n">>, c >>
       /\ testCase' = mapRow(ScoredRowHeaders, << <<"T","1">>, <<"L","o","g","i","n">>, c >>)
  /\ pc' = "scored"
  /\ UNCHANGED parseVars
  /\ UNCHANGED scanVars
  /\ UNCHANGED stepsVars
  /\ UNCHANGED formatted /\ UNCHANGED appVars
  /\ UNCHANGED configVars

\* estimateTime(testCase) is called for a record without steps or with n
EstimateTime ==
  /\ pc = "idle"
  /\ \E tc \in {EmptyObject}
               \cup {setProp(EmptyObject, K_steps, [k \in 1..n |-> <<"a">>]) :
                       n \in 0..MaxStepCount} :
       /\ testCase' = tc
       /\ formatted' = estimateTime(tc)
  /\ pc' = "time"
  /\ UNCHANGED parseVars /\ UNCHANGED scanVars /\ UNCHANGED stepsVars
  /\ UNCHANGED <<headers, values>> /\ UNCHANGED appVars
  /\ UNCHANGED configVars

\* formatLabels(testCase) is called for a record whose category and type
\* are each absent, empty or set
FormatLabels ==
  /\ pc = "idle"
  /\ \E withCategory \in {EmptyObject}
                 \cup {setProp(EmptyObject, K_category, c) : c \in LabelPool} :
     \E tc \in {withCategory}
                 \cup {setProp(withCategory, K_type, t) : t \in LabelPool} :
       /\ testCase' = tc
       /\ formatted' = formatLabels(tc)
  /\ pc' = "labels"
  /\ UNCHANGED parseVars /\ UNCHANGED scanVars /\ UNCHANGED stepsVars
  /\ UNCHANGED <<headers, values>> /\ UNCHANGED appVars
  /\ UNCHANGED configVars

\* generateBDDScript(testCase) is called
GenerateBDD ==
  /\ pc = "idle"
  /\ \E base \in BddRecords : \E ss \in SeqsOver(BddStepPool, MaxBddSteps) :
       /\ testCase' = setProp(base, K_steps, ss)
       /\ formatted' = generateBDDScript(setProp(base, K_steps, ss))
  /\ pc' = "bdd"
  /\ UNCHANGED parseVars /\ UNCHANGED scanVars /\ UNCHANGED stepsVars
  /\ UNCHANGED <<headers, values>> /\ UNCHANGED appVars
  /\ UNCHANGED configVars

\* part_001:307-380: the generator answers; on success its text is parsed
\* and the quality report is the backend's, a made-up one when there is
\* raw JSON, and otherwise left as it is
HandleGenerate ==
  /\ pc \in {"idle", "app"}
  /\ \/ \E text \in GeneratedTexts :
          LET parsed == parseCSVToTestCases(JSString(text))
              testCases == parsed.value
          IN /\ csvContent' = JSString(text)
             /\ outcome' = parsed
             /\ generatedCases' = testCases
             /\ \E report \in BackendReports :
                  IF report.present THEN qualityReport' = report
                  ELSE \E rawJson \in BOOLEAN :
                         IF rawJson
                           THEN \E f \in [1..Len(testCases) -> FallbackScores] :
                                  qualityReport' =
                                    Report([k \in 1..Len(testCases) |->
                                              ScoreOf(testCases[k][K_id], f[k])])
                           ELSE qualityReport' = qualityReport
     \/ UNCHANGED <<csvContent, outcome, generatedCases, qualityReport>>
  /\ exported' = NotExported
  /\ pc' = "app"
  /\ UNCHANGED lines /\ UNCHANGED scanVars /\ UNCHANGED stepsVars
  /\ UNCHANGED rowVars /\ UNCHANGED formatted
  /\ UNCHANGED configVars

\* part_001:745-747: the results are cleared
ClearResults ==
  /\ pc = "app"
  /\ generatedCases' = <<>>
  /\ qualityReport' = NoReport
  /\ exported' = NotExported
  /\ pc' = "app"
  /\ UNCHANGED parseVars /\ UNCHANGED scanVars /\ UNCHANGED stepsVars
  /\ UNCHANGED rowVars /\ UNCHANGED formatted
  /\ UNCHANGED configVars

\* part_001:545-572: the content of the csv and zephyr formats
exportContent(format) ==
  IF format = "csv" THEN plainCSV(generatedCases, qualityReport)
  ELSE IF format = "zephyr" THEN convertToZephyrCSV(generatedCases)
  ELSE <<>>

\* part_003:304-311: what writeFile resolves to
WriteResults ==
  { [success |-> TRUE, error |-> <<>>],
    [success |-> FALSE, error |-> <<"E","A","C","C","E","S">>] }

\* a variant that reports success whatever writeFile returned
afterWrite_IgnoresResult(format, writeResult, content, sheet, errorTitle, logPrefix, messagePrefix) ==
  [format |-> format, box |-> "Export Success", log |-> "info",
   written |-> writeResult.success, content |-> content, sheet |-> sheet,
   writeError |-> writeResult.error, logText |-> <<>>, message |-> <<>>]

\* part_001:423-445, 529-540, 576-597: the success log and box, or
\* throw new Error(writeResult.error) and the catch block's log and box
afterWrite(format, writeResult, content, sheet, errorTitle, logPrefix, messagePrefix) ==
  IF writeResult.success
    THEN [format |-> format, box |-> "Export Success", log |-> "info",
          written |-> TRUE, content |-> content, sheet |-> sheet,
          writeError |-> <<>>, logText |-> <<>>, message |-> <<>>]
    ELSE LET error == [message |-> writeResult.error]
         IN [format |-> format, box |-> errorTitle, log |-> "error",
             written |-> FALSE, content |-> content, sheet |-> sheet,
             writeError |-> writeResult.error,
             logText |-> logPrefix \o error.message,
             message |-> messagePrefix \o error.message]

\* part_001:450-598, called with 'csv' or 'xlsx' (lines 1194-1195)
HandleExport ==
  /\ pc \in {"idle", "app"}
  /\ \E format \in {"csv", "xlsx"} :
       IF Len(generatedCases) = 0
         THEN exported' = [NotExported EXCEPT !.format = format,
                                              !.box = "No Data"]
         ELSE LET content == exportContent(format)
                  sheet == IF format = "xlsx"
                             THEN worksheetData(generatedCases, qualityReport)
                             ELSE <<>>
              IN \E canceled \in BOOLEAN : \E writeResult \in WriteResults :
                   exported' =
                     IF canceled THEN [NotExported EXCEPT !.format = format]
                     ELSE afterWrite(format, writeResult, content, sheet,
                                     "Export Error", <<"E","x","p","o","r","t"," ","f","a","i","l","e","d",":"," ">>,
                                     IF format = "csv"
                                       THEN <<"F","a","i","l","e","d"," ","t","o"," ","e","x","p","o","r","t"," ","C","S","V",":","\n">>
                                       ELSE <<"F","a","i","l","e","d"," ","t","o"," ","e","x","p","o","r","t"," ","X","L","S","X",":","\n">>)
  /\ pc' = "app"
  /\ UNCHANGED <<generatedCases, qualityReport>>
  /\ UNCHANGED parseVars /\ UNCHANGED scanVars /\ UNCHANGED stepsVars
  /\ UNCHANGED rowVars /\ UNCHANGED formatted
  /\ UNCHANGED configVars

\* a variant whose row building reverses the record array in place
HandleExportZephyr_ReversesInPlace ==
  /\ pc \in {"idle", "app"}
  /\ IF Len(generatedCases) = 0
       THEN exported' = [NotExported EXCEPT !.format = "zephyr",
                                            !.box = "No Data"]
       ELSE LET content == convertToZephyrCSV(generatedCases)
            IN \E canceled \in BOOLEAN : \E writeResult \in WriteResults :
                 exported' =
                   IF canceled THEN [NotExported EXCEPT !.format = "zephyr"]
                   ELSE afterWrite("zephyr", writeResult, content, <<>>,
                                   "Export Failed", <<"Z","e","p","h","y","r"," ","e","x","p","o","r","t"," ","f","a","i","l","e","d",":"," ">>,
                                   <<"F","a","i","l","e","d"," ","t","o"," ","e","x","p","o","r","t"," ","t","e","s","t"," ","c","a","s","e","s"," ","t","o"," ","Z","e","p","h","y","r"," ","f","o","r","m","a","t",":","\n">>)
  /\ pc' = "app"
  /\ generatedCases' = [k \in 1..Len(generatedCases) |->
                          generatedCases[Len(generatedCases) + 1 - k]]
  /\ UNCHANGED qualityReport
  /\ UNCHANGED parseVars /\ UNCHANGED scanVars /\ UNCHANGED stepsVars
  /\ UNCHANGED rowVars /\ UNCHANGED formatted
  /\ UNCHANGED configVars

\* part_001:395-447
HandleExportZephyr ==
  /\ pc \in {"idle", "app"}
  /\ IF Len(generatedCases) = 0
       THEN exported' = [NotExported EXCEPT !.format = "zephyr",
                                            !.box = "No Data"]
       ELSE LET content == convertToZephyrCSV(generatedCases)
            IN \E canceled \in BOOLEAN : \E writeResult \in WriteResults :
                 exported' =
                   IF canceled THEN [NotExported EXCEPT !.format = "zephyr"]
                   ELSE afterWrite("zephyr", writeResult, content, <<>>,
                                   "Export Failed", <<"Z","e","p","h","y","r"," ","e","x","p","o","r","t"," ","f","a","i","l","e","d",":"," ">>,
                                   <<"F","a","i","l","e","d"," ","t","o"," ","e","x","p","o","r","t"," ","t","e","s","t"," ","c","a","s","e","s"," ","t","o"," ","Z","e","p","h","y","r"," ","f","o","r","m","a","t",":","\n">>)
  /\ pc' = "app"
  /\ UNCHANGED <<generatedCases, qualityReport>>
  /\ UNCHANGED parseVars /\ UNCHANGED scanVars /\ UNCHANGED stepsVars
  /\ UNCHANGED rowVars /\ UNCHANGED formatted
  /\ UNCHANGED configVars

Next ==
  \/ EstimateTime
  \/ FormatLabels
  \/ GenerateBDD
  \/ HandleGenerate
  \/ ClearResults
  \/ HandleExport
  \/ HandleExportZephyr
  \/ MapColumn
  \/ MapScoredRow
  \/ AppendLine
  \/ CheckLLMConfiguration
  \/ GetConfigurationSettles
  \/ ParseCSV
  \/ ParseQuotedText
  \/ ScanLine
  \/ ScanEscapedField
  \/ ScanStep
  \/ ScanReturn
  \/ DecodeStepsCell

Spec == Init /\ [][Next]_vars

\* the loop of parseCSVLine runs to completion once entered
FairSpec == Spec /\ WF_vars(ScanStep) /\ WF_vars(ScanReturn)

TypeOK ==
  /\ configLoading \in BOOLEAN
  /\ llmConfigStatus.isConfigured \in BOOLEAN
  /\ pc \in {"idle", "input", "parsed", "text", "checking", "checked", "scan", "scanned", "decoded", "row",
            "scored", "time", "labels", "bdd", "app"}
  /\ exported.written \in BOOLEAN
  /\ qualityReport.present \in BOOLEAN
  /\ Len(headers) = Len(values)
  /\ Len(lines) <= MaxLines
  /\ outcome.threw \in BOOLEAN
  /\ inQuotes \in BOOLEAN
  /\ i \in 0..Len(line)

\* ------------------------------------------------- vocabulary of the claims
\* the text handed to the parser was assembled from lines
ParsedText == pc = "parsed" /\ csvContent.type = "string"

Records == outcome.value

\* a line mentions one of the header keywords, in any letter case
MentionsKeyword(l) ==
  \E kw \in {<<"t","e","s","t","i","d">>, <<"t","e","s","t"," ","i","d">>,
             <<"t","i","t","l","e">>} : includes(toLowerCase(l), kw)

HasHeader == \E k \in 1..Len(lines) : MentionsKeyword(lines[k])

\* position in lines of the first line that mentions a keyword
FirstHeader ==
  CHOOSE k \in 1..Len(lines) :
    /\ MentionsKeyword(lines[k])
    /\ \A j \in 1..(k - 1) : ~MentionsKeyword(lines[j])

\* the lines after the header, in order
DataRows == SubSeq(lines, FirstHeader + 1, Len(lines))

IsBlank(l) == \A k \in 1..Len(l) : IsSpace(l[k])

IsSeparator(l) == Len(l) >= 3 /\ l[1] = "-" /\ l[2] = "-" /\ l[3] = "-"

IsMetadata(l) == includes(l, <<"M","E","T","A","D","A","T","A">>)

IsGenuineRow(l) == ~IsBlank(l) /\ ~IsSeparator(l) /\ ~IsMetadata(l)

\* what the parser returns for a text made of the given lines
ParseOf(ls) == parseCSVToTestCases(JSString(join(ls, <<NL>>))).value

\* the id and title cells of a row under HeaderLine (columns 1 and 2)
IdCell(l) == parseCSVLine(l)[1]

TitleCell(l) ==
  IF Len(parseCSVLine(l)) >= 2 THEN parseCSVLine(l)[2] ELSE <<>>

RECURSIVE IsSubsequence(_, _)
IsSubsequence(a, b) ==
  IF a = <<>> THEN TRUE
  ELSE IF b = <<>> THEN FALSE
  ELSE IF Head(a) = Head(b) THEN IsSubsequence(Tail(a), Tail(b))
  ELSE IsSubsequence(a, Tail(b))

\* ------------------------------------------------------------------ claims
\* C1: every returned record has a non-empty id and a non-empty title, and
\* no more records are returned than there are data rows whose id cell and
\* title cell are both non-empty after trimming.
C1_RequiredFieldGate ==
  (ParsedText /\ HasHeader) =>
     LET rows == DataRows
         cells == [k \in 1..Len(rows) |-> <<IdCell(rows[k]), TitleCell(rows[k])>>]
     IN /\ \A k \in 1..Len(Records) :
             /\ hasProp(Records[k], K_id) /\ Records[k][K_id] /= <<>>
             /\ hasProp(Records[k], K_title) /\ Records[k][K_title] /= <<>>
        /\ Len(Records) <=
             Cardinality({k \in 1..Len(rows) :
                            cells[k][1] /= <<>> /\ cells[k][2] /= <<>>})

C1_Witness ==
  /\ ParsedText /\ HasHeader
  /\ Len(Records) >= 1
  /\ \E k \in 1..Len(DataRows) : IdCell(DataRows[k]) = <<>>
  /\ \E k \in 1..Len(DataRows) :
       IdCell(DataRows[k]) /= <<>> /\ TitleCell(DataRows[k]) = <<>>

\* C2: the call never throws: it returns a sequence for every argument, and
\* the empty sequence whenever the statements inside try raise an error.
C2_NeverThrows ==
  pc = "parsed" =>
     /\ ~outcome.threw
     /\ (parseTryBlock(csvContent).threw => outcome.value = <<>>)
     /\ (csvContent.type /= "string" => outcome.value = <<>>)

C2_Witness ==
  /\ pc = "parsed"
  /\ csvContent = JSNumber(5)
  /\ parseTryBlock(csvContent).threw

\* C3: the header is the first line mentioning testid, test id or title in
\* any letter case; the lines before it give no record, the lines after it
\* are read under its column names; with no such line the result is empty.
C3_FirstHeaderLine ==
  ParsedText =>
     IF HasHeader
       THEN Records = dataLoop(parseHeaders(lines[FirstHeader]), DataRows, 1, <<>>)
       ELSE Records = <<>>

C3_Witness ==
  /\ ParsedText /\ HasHeader
  /\ FirstHeader = 2
  /\ lines[1] = BannerLine
  /\ \E k \in 1..Len(DataRows) : MentionsKeyword(DataRows[k])
  /\ Len(Records) >= 2

\* C4: banner lines before the header and blank, '---' and METADATA lines
\* after it contribute nothing: the result is that of the header followed
\* by the genuine data rows alone.
C4_HeaderTolerance ==
  (ParsedText /\ HasHeader) =>
     Records = ParseOf(<<lines[FirstHeader]>> \o SelectSeq(DataRows, IsGenuineRow))

C4_Witness ==
  /\ ParsedText /\ HasHeader
  /\ FirstHeader > 1
  /\ \E k \in 1..Len(DataRows) : IsSeparator(DataRows[k]) \/ IsMetadata(DataRows[k])
  /\ Len(Records) >= 1

\* a row that tokenizes to fewer fields than the header has columns
IsShortRow(l) == Len(parseCSVLine(l)) < Len(parseHeaders(lines[FirstHeader]))

IsFullRow(l) == ~IsShortRow(l)

\* C5: a row with fewer fields than the header has columns is dropped, no
\* error is raised, and the result is that of the text without such rows.
C5_ShortRowDropped ==
  (ParsedText /\ HasHeader) =>
     /\ ~outcome.threw
     /\ Records = ParseOf(<<lines[FirstHeader]>> \o SelectSeq(DataRows, IsFullRow))

C5_Witness ==
  /\ ParsedText /\ HasHeader
  /\ Len(DataRows) = 3
  /\ IsGenuineRow(DataRows[2]) /\ IsShortRow(DataRows[2])
  /\ Len(Records) = 2

\* C6: the (id, title) pairs of the returned records, in order, are a
\* subsequence of the (id cell, title cell) pairs of the data rows in row
\* order: nothing is reordered and no row is returned twice.
C6_RowOrder ==
  (ParsedText /\ HasHeader /\ lines[FirstHeader] = HeaderLine) =>
     LET rows == DataRows
     IN IsSubsequence(
          [k \in 1..Len(Records) |-> <<Records[k][K_id], Records[k][K_title]>>],
          [k \in 1..Len(rows) |-> <<IdCell(rows[k]), TitleCell(rows[k])>>])

C6_Witness ==
  /\ ParsedText /\ HasHeader /\ lines[FirstHeader] = HeaderLine
  /\ Len(Records) >= 2
  /\ Records[1][K_id] /= Records[2][K_id]

\* number of quote characters of l before position k
QuotesBefore(l, k) == Cardinality({j \in 1..(k - 1) : l[j] = QUOTE})

\* position k of l lies outside every quoted span
IsOutside(l, k) == QuotesBefore(l, k) % 2 = 0

OutsideCommas(l) == {k \in 1..Len(l) : l[k] = COMMA /\ IsOutside(l, k)}

InsideCommas(l) == {k \in 1..Len(l) : l[k] = COMMA /\ ~IsOutside(l, k)}

\* positions where a maximal run of quote characters starts
QuoteRunStarts(l) ==
  {k \in 1..Len(l) : l[k] = QUOTE /\ (k = 1 \/ l[k - 1] /= QUOTE)}

QuoteRunLen(l, k) ==
  Cardinality({j \in k..Len(l) : \A m \in k..j : l[m] = QUOTE})

\* doubled quotes inside a quoted span within the run starting at k: a run
\* that starts outside a span spends its first quote on opening the span
DoubledInRun(l, k) ==
  IF IsOutside(l, k) THEN (QuoteRunLen(l, k) - 1) \div 2
                     ELSE QuoteRunLen(l, k) \div 2

RECURSIVE SumOver(_, _)
SumOver(S, l) ==
  IF S = {} THEN 0
  ELSE LET k == CHOOSE x \in S : TRUE
       IN DoubledInRun(l, k) + SumOver(S \ {k}, l)

DoubledQuotes(l) == SumOver(QuoteRunStarts(l), l)

\* occurrences of character c in the fields fs
RECURSIVE CountIn(_, _)
CountIn(fs, c) ==
  IF fs = <<>> THEN 0
  ELSE Cardinality({k \in 1..Len(Head(fs)) : Head(fs)[k] = c}) + CountIn(Tail(fs), c)

IsTrimmed(f) == f = <<>> \/ (~IsSpace(f[1]) /\ ~IsSpace(f[Len(f)]))

\* C7: the line is split at exactly the commas outside quoted spans, a
\* doubled quote inside a span gives one literal quote, a comma inside a
\* span stays in its field, other characters are kept, and every field is
\* trimmed.
C7_TokenizerFields ==
  pc = "scanned" =>
     /\ Len(fields) = 1 + Cardinality(OutsideCommas(line))
     /\ CountIn(fields, COMMA) = Cardinality(InsideCommas(line))
     /\ CountIn(fields, QUOTE) = DoubledQuotes(line)
     /\ CountIn(fields, "a") = CountIn(<<line>>, "a")
     /\ \A k \in 1..Len(fields) : IsTrimmed(fields[k])

C7_Witness ==
  /\ pc = "scanned"
  /\ OutsideCommas(line) /= {}
  /\ InsideCommas(line) /= {}
  /\ DoubledQuotes(line) >= 1
  /\ CountIn(fields, QUOTE) >= 1

\* C8: every iteration of the scan moves the index forward, the scan of
\* every line ends, and what is returned is the closed fields followed by
\* the trimmed field still being accumulated.
C8_TokenizerTerminates ==
  /\ [][ScanStep => (i' > i /\ i' <= Len(line))]_vars
  /\ [](pc = "scan" => <>(pc = "scanned"))
  /\ [](pc = "scanned" => fields = Append(result, trim(current)))

\* a scan that ended inside an unterminated quoted span, after a stray quote
C8_Witness ==
  /\ pc = "scanned"
  /\ inQuotes
  /\ QuotesBefore(line, Len(line) + 1) >= 3
  /\ fields[Len(fields)] /= <<>>

HasSpecial(s) ==
  includesChar(s, COMMA) \/ includesChar(s, QUOTE) \/ includesChar(s, NL)

EscapedScanDone == pc = "scanned" /\ escaped /\ HasSpecial(field)

\* C9 as stated: tokenizing the escaped form of s gives back [s].
C9_RoundTripExact == EscapedScanDone => fields = <<field>>

\* C9 amended: tokenizing the escaped form of a string s that contains a
\* comma, a quote or a newline gives the one-element sequence holding s
\* without its leading and trailing whitespace.
C9_RoundTripTrimmed == EscapedScanDone => fields = <<trim(field)>>

C9_Witness ==
  /\ EscapedScanDone
  /\ includesChar(field, QUOTE) /\ includesChar(field, COMMA)
  /\ field /= trim(field)

IsPlainStep(s) == ~includesChar(s, PIPE) /\ ~includesChar(s, NL)

\* C10: steps without '|' or newline, joined with '|' and decoded, come
\* back as the same sequence.
C10_StepsRoundTrip ==
  (pc = "decoded" /\ \A k \in 1..Len(steps) : IsPlainStep(steps[k])) =>
     decoded = steps


\* ------------------------------------------ vocabulary of the row claims
\* a row has been mapped, column by column or as a whole
RowMapped == pc \in {"row", "scored"}

Accepted == hasRequiredFields(testCase)

\* the alias table of the specification, by the spelling of the header
AliasField(h) ==
  CASE h \in {<<"T","e","s","t","I","D">>, <<"t","e","s","t"," ","i","d">>} -> K_id
    [] h \in {<<"T","I","T","L","E">>, <<"T","i","t","l","e">>} -> K_title
    [] h \in {<<"S","t","e","p","s">>, <<"S","T","E","P","S">>} -> K_steps
    [] h \in {<<"E","x","p","e","c","t","e","d"," ","R","e","s","u","l","t">>, <<"E","X","P","E","C","T","E","D">>} -> K_expected
    [] h \in {<<"P","r","i","o","r","i","t","y">>, <<"P","R","I","O","R","I","T","Y">>} -> K_priority
    [] h \in {<<"C","a","t","e","g","o","r","y">>, <<"c","a","t","e","g","o","r","y">>} -> K_category
    [] h \in {<<"T","y","p","e">>, <<"T","Y","P","E">>} -> K_type
    [] h \in {<<"Q","u","a","l","i","t","y"," ","S","c","o","r","e">>, <<"Q","U","A","L","I","T","Y"," ","S","C","O","R","E">>} -> K_qualityScore
    [] OTHER -> <<>>

IsAlias(h) == AliasField(h) /= <<>>

\* the key of a column outside the alias table: lowercased, space to '_'
ExtraKey(h) ==
  CASE h = <<"T","e","s","t"," ","D","a","t","a">> -> <<"t","e","s","t","_","d","a","t","a">>
    [] h = <<"I","D">> -> <<"i","d">>
    [] OTHER -> <<>>

\* the property a column is stored under
ColumnKey(h) == IF IsAlias(h) THEN AliasField(h) ELSE ExtraKey(h)

\* no later column of the row is stored under the same property
IsLastWriter(k) ==
  \A j \in (k + 1)..Len(headers) : ColumnKey(headers[j]) /= ColumnKey(headers[k])

\* the last column stored under key, 0 when there is none
LastColumn(key) ==
  IF \E k \in 1..Len(headers) : ColumnKey(headers[k]) = key
    THEN CHOOSE k \in 1..Len(headers) :
           ColumnKey(headers[k]) = key /\ IsLastWriter(k)
    ELSE 0

\* C11: when the Steps cell of an accepted row is empty, the steps of the
\* record are the empty sequence.
C11_EmptyStepsCell ==
  (RowMapped /\ Accepted /\ LastColumn(K_steps) /= 0
     /\ values[LastColumn(K_steps)] = <<>>) =>
     testCase[K_steps] = <<>>

RECURSIVE Pow10(_)
Pow10(k) == IF k = 0 THEN 1 ELSE 10 * Pow10(k - 1)

\* c[a..b] is the first run of digits of c, and c[b+2..d] the digits after
\* a point that follows it directly (d = b without a point)
IsFirstNumber(c, a, b, d) ==
  /\ a <= b
  /\ \A j \in 1..(a - 1) : ~IsDigit(c[j])
  /\ \A j \in a..b : IsDigit(c[j])
  /\ (b = Len(c) \/ ~IsDigit(c[b + 1]))
  /\ IF b < Len(c) /\ c[b + 1] = "."
       THEN /\ d >= b + 1
            /\ \A j \in (b + 2)..d : IsDigit(c[j])
            /\ (d = Len(c) \/ ~IsDigit(c[d + 1]))
       ELSE d = b

\* score is the decimal number written c[a..b] . c[b+2..d]
IsValueOf(score, c, a, b, d) ==
  LET fracLen == IF d > b THEN d - b - 1 ELSE 0
      whole == digitsValue(SubSeq(c, a, b))
      frac == IF fracLen > 0 THEN digitsValue(SubSeq(c, b + 2, d)) ELSE 0
  IN /\ score.n * Pow10(fracLen) = (whole * Pow10(fracLen) + frac) * Pow10(score.e)
     /\ (score.e = 0 \/ score.n % 10 /= 0)

\* score is the first decimal number of the cell, 0 when it has no digit
IsFirstNumberOf(score, c) ==
  IF \E j \in 1..Len(c) : IsDigit(c[j])
    THEN \E a \in 1..Len(c) : \E b \in a..Len(c) : \E d \in b..Len(c) :
           IsFirstNumber(c, a, b, d) /\ IsValueOf(score, c, a, b, d)
    ELSE score = Num(0, 0)

\* score is the decimal number the cell starts with, 0 when it starts
\* with anything else
IsLeadingNumberOf(score, c) ==
  IF c /= <<>> /\ IsDigit(c[1])
    THEN \E b \in 1..Len(c) : \E d \in b..Len(c) :
           IsFirstNumber(c, 1, b, d) /\ IsValueOf(score, c, 1, b, d)
    ELSE score = Num(0, 0)

HasScoreColumn == RowMapped /\ LastColumn(K_qualityScore) /= 0

ScoreCell == values[LastColumn(K_qualityScore)]

\* C12 as stated: qualityScore is the number the cell starts with and 0
\* for a cell that does not start with a number; the row is kept.
C12_LeadingNumber ==
  HasScoreColumn =>
     /\ IsLeadingNumberOf(testCase[K_qualityScore], ScoreCell)
     /\ (pc = "scored" => Accepted)

\* C12 amended: qualityScore is the first decimal number occurring in the
\* cell ('7.5/10' gives 7.5) and 0 when the cell contains no digit ('N/A',
\* empty); no cell causes an error or a dropped row.
C12_FirstNumber ==
  HasScoreColumn =>
     /\ IsFirstNumberOf(testCase[K_qualityScore], ScoreCell)
     /\ (ScoreCell = <<"7",".","5","/","1","0">> => testCase[K_qualityScore] = Num(75, 1))
     /\ (ScoreCell = <<"N","/","A">> => testCase[K_qualityScore] = Num(0, 0))
     /\ (pc = "scored" => Accepted)

C12_Witness ==
  /\ pc = "scored" /\ Accepted
  /\ ScoreCell = <<"x","7",".","0">>
  /\ testCase[K_qualityScore] = Num(7, 0)

\* C13: a column whose header is an alias in any letter case is stored
\* under the alias's field, whatever its position; id, title and expected
\* hold the cell of the last such column.
C13_CaseInsensitiveAliases ==
  RowMapped =>
     \A k \in 1..Len(headers) :
        IsAlias(headers[k]) =>
           /\ hasProp(testCase, AliasField(headers[k]))
           /\ (AliasField(headers[k]) \in {K_id, K_title, K_expected}
                 /\ IsLastWriter(k))
                => testCase[AliasField(headers[k])] = values[k]

C13_Witness ==
  /\ pc = "row" /\ Len(headers) = 3
  /\ headers[1] = <<"Q","U","A","L","I","T","Y"," ","S","C","O","R","E">>
  /\ headers[2] = <<"T","I","T","L","E">>
  /\ headers[3] = <<"t","e","s","t"," ","i","d">>
  /\ hasProp(testCase, K_qualityScore) /\ hasProp(testCase, K_title)
  /\ hasProp(testCase, K_id)

DefaultOf(key) ==
  CASE key = K_priority -> <<"M","e","d","i","u","m">>
    [] key = K_category -> <<"F","u","n","c","t","i","o","n","a","l">>
    [] key = K_type -> <<"S","m","o","k","e">>

\* C14: a Priority, Category or Type column with an empty cell gives
\* 'Medium', 'Functional' or 'Smoke'; a non-empty cell is kept unchanged.
C14_Defaults ==
  RowMapped =>
     \A key \in {K_priority, K_category, K_type} :
        LastColumn(key) /= 0 =>
           testCase[key] = IF values[LastColumn(key)] = <<>>
                             THEN DefaultOf(key)
                             ELSE values[LastColumn(key)]

C14_Witness ==
  /\ pc = "row" /\ Accepted
  /\ LastColumn(K_category) /= 0
  /\ values[LastColumn(K_category)] = <<>>
  /\ testCase[K_category] = <<"F","u","n","c","t","i","o","n","a","l">>

\* C15: a column whose header is outside the alias table is kept under
\* the lowercased header with whitespace replaced by '_', holding the raw
\* cell (of the last column stored under that key).
C15_ExtraFields ==
  RowMapped =>
     \A k \in 1..Len(headers) :
        (~IsAlias(headers[k]) /\ IsLastWriter(k)) =>
           /\ hasProp(testCase, ExtraKey(headers[k]))
           /\ testCase[ExtraKey(headers[k])] = values[k]

C15_Witness ==
  /\ pc = "row" /\ Accepted /\ Len(headers) = 3
  /\ headers[3] = <<"T","e","s","t"," ","D","a","t","a">>
  /\ testCase[<<"t","e","s","t","_","d","a","t","a">>] = <<"d"," ","1">>


\* ------------------------------------------ vocabulary of the export claims
\* an export handler handed content in the given format to writeFile
Exported(format) ==
  pc = "app" /\ exported.format = format /\ exported.log /= ""

\* a field as CSV escaping leaves it: free of commas, quotes and newlines,
\* or wrapped in quotes with every quote inside doubled
WellEscaped(f) ==
  \/ ~HasSpecial(f)
  \/ /\ Len(f) >= 2 /\ f[1] = QUOTE /\ f[Len(f)] = QUOTE
     /\ LET inner == SubSeq(f, 2, Len(f) - 1)
        IN \A k \in QuoteRunStarts(inner) : QuoteRunLen(inner, k) % 2 = 0

\* C16: every field of every data row of the Zephyr content is CSV-escaped,
\* and every data row tokenizes into exactly 17 fields.
C16_ZephyrRowsEscaped ==
  Exported("zephyr") =>
     LET rows == [k \in 1..Len(generatedCases) |->
                    zephyrRow(generatedCases[k])]
     IN /\ exported.content =
             join(<<join(zephyrHeaders, <<COMMA>>)>>
                    \o [k \in 1..Len(rows) |-> join(rows[k], <<COMMA>>)],
                  <<NL>>)
        /\ \A k \in 1..Len(rows) :
              /\ \A j \in 1..Len(rows[k]) : WellEscaped(rows[k][j])
              /\ Len(parseCSVLine(join(rows[k], <<COMMA>>))) = 17

\* ds is the decimal numeral of v
IsNumeral(ds, v) ==
  /\ ds /= <<>>
  /\ \A k \in 1..Len(ds) : IsDigit(ds[k])
  /\ (Len(ds) = 1 \/ ds[1] /= "0")
  /\ digitsValue(ds) = v

\* text renders m minutes: 'Nm' under an hour, else 'Hh Mm' or 'Hh'
RendersMinutes(text, m) ==
  LET n == Len(text)
  IN IF m < 60
       THEN /\ n >= 2 /\ text[n] = "m"
            /\ IsNumeral(SubSeq(text, 1, n - 1), m)
     ELSE IF m % 60 = 0
       THEN /\ n >= 2 /\ text[n] = "h"
            /\ IsNumeral(SubSeq(text, 1, n - 1), m \div 60)
     ELSE \E p \in 2..(n - 3) :
            /\ text[p] = "h" /\ text[p + 1] = " " /\ text[n] = "m"
            /\ IsNumeral(SubSeq(text, 1, p - 1), m \div 60)
            /\ IsNumeral(SubSeq(text, p + 2, n - 1), m % 60)

TimeEstimated == pc = "time" /\ hasProp(testCase, K_steps)

StepCount == Len(testCase[K_steps])

\* C17: the estimate of a record with n steps renders max(2n, 5) minutes
\* as 'Nm' under 60 and as 'Hh Mm' or 'Hh' from 60 on, for every n from 0:
\* 3 steps give '6m', 29 give '58m', 30 give '1h', 40 give '1h 20m'.
C17_EstimatedTime ==
  TimeEstimated =>
     /\ RendersMinutes(formatted,
                       IF 2 * StepCount > 5 THEN 2 * StepCount ELSE 5)
     /\ (StepCount = 0 => formatted = <<"5","m">>)
     /\ (StepCount = 3 => formatted = <<"6","m">>)
     /\ (StepCount = 29 => formatted = <<"5","8","m">>)
     /\ (StepCount = 30 => formatted = <<"1","h">>)
     /\ (StepCount = 40 => formatted = <<"1","h"," ","2","0","m">>)

C17_Witness ==
  TimeEstimated /\ StepCount = 40 /\ formatted = <<"1","h"," ","2","0","m">>

\* step mentions word, in any letter case
Mentions(step, word) ==
  \E p \in 1..(Len(step) - Len(word) + 1) :
     \A q \in 1..Len(word) : LowerChar(step[p + q - 1]) = word[q]

\* the keyword the specification gives the k-th step (k from 1)
KeywordOf(stepList, k) ==
  IF k = 1 THEN <<"G","i","v","e","n">>
  ELSE IF \E w \in {<<"c","l","i","c","k">>, <<"e","n","t","e","r">>, <<"s","e","l","e","c","t">>, <<"s","u","b","m","i","t">>} :
            Mentions(stepList[k], w)
    THEN <<"W","h","e","n">>
  ELSE IF \E w \in {<<"v","e","r","i","f","y">>, <<"s","h","o","u","l","d">>, <<"c","h","e","c","k">>} :
            Mentions(stepList[k], w)
    THEN <<"T","h","e","n">>
  ELSE <<"A","n","d">>

BddGenerated == pc = "bdd"

ExpectedSet ==
  hasProp(testCase, K_expected) /\ testCase[K_expected] /= <<>>

\* the lines of the script: the text ends with a newline
ScriptLines ==
  LET parts == split(formatted, NL)
  IN SubSeq(parts, 1, Len(parts) - 1)

\* C18: the script is one 'Scenario:' line, then one line per step, in
\* order, with the keyword Given for the first step, else When for a
\* step mentioning click, enter, select or submit, else Then for verify,
\* should or check, else And, then one 'Then <expected>' line exactly
\* when expected is non-empty; the example steps get Given, When, Then.
C18_BddScript ==
  BddGenerated =>
     LET stepList == testCase[K_steps]
         scriptLines == ScriptLines
         n == Len(stepList)
     IN /\ formatted /= <<>> /\ formatted[Len(formatted)] = NL
        /\ Len(scriptLines) = 1 + n + (IF ExpectedSet THEN 1 ELSE 0)
        /\ startsWith(scriptLines[1], <<"S","c","e","n","a","r","i","o",":"," ">>)
        /\ \A k \in 1..n :
              scriptLines[k + 1] =
                <<" "," ">> \o KeywordOf(stepList, k) \o <<" ">> \o trim(stepList[k])
        /\ ExpectedSet =>
              scriptLines[n + 2] = <<" "," ","T","h","e","n"," ">> \o testCase[K_expected]
        /\ stepList = << <<"N","a","v","i","g","a","t","e"," ","t","o"," ","p","a","g","e">>, <<"C","l","i","c","k"," ","s","u","b","m","i","t">>,
                         <<"V","e","r","i","f","y"," ","s","u","c","c","e","s","s"," ","m","e","s","s","a","g","e">> >> =>
              /\ startsWith(scriptLines[2], <<" "," ","G","i","v","e","n"," ">>)
              /\ startsWith(scriptLines[3], <<" "," ","W","h","e","n"," ">>)
              /\ startsWith(scriptLines[4], <<" "," ","T","h","e","n"," ">>)

C18_Witness ==
  /\ BddGenerated /\ ExpectedSet
  /\ testCase[K_steps] = << <<"N","a","v","i","g","a","t","e"," ","t","o"," ","p","a","g","e">>, <<"C","l","i","c","k"," ","s","u","b","m","i","t">>,
                            <<"V","e","r","i","f","y"," ","s","u","c","c","e","s","s"," ","m","e","s","s","a","g","e">> >>
  /\ ScriptLines =
       << <<"S","c","e","n","a","r","i","o",":"," ","L","o","g","i","n">>, <<" "," ","G","i","v","e","n"," ","N","a","v","i","g","a","t","e"," ","t","o"," ","p","a","g","e">>,
          <<" "," ","W","h","e","n"," ","C","l","i","c","k"," ","s","u","b","m","i","t">>, <<" "," ","T","h","e","n"," ","V","e","r","i","f","y"," ","s","u","c","c","e","s","s"," ","m","e","s","s","a","g","e">>,
          <<" "," ","T","h","e","n"," ","o","k">> >>


\* a canonical record: id, title, steps, expected and priority are set
IsCanonical(tc) ==
  \A key \in {K_id, K_title, K_steps, K_expected, K_priority} :
     hasProp(tc, key)

\* C19: parsing the Plain CSV content written for canonical records gives
\* as many records, in the same order, with the same id, title, steps,
\* expected and priority.
C19_PlainRoundTrip ==
  (Exported("csv")
     /\ \A k \in 1..Len(generatedCases) : IsCanonical(generatedCases[k])) =>
     LET back == parseCSVToTestCases(JSString(exported.content)).value
     IN /\ Len(back) = Len(generatedCases)
        /\ \A k \in 1..Len(back) :
              \A key \in {K_id, K_title, K_steps, K_expected, K_priority} :
                 /\ hasProp(back[k], key)
                 /\ back[k][key] = generatedCases[k][key]

\* the record of the end-to-end example
EndToEndRecord ==
  setProp(setProp(setProp(setProp(setProp(EmptyObject,
    K_id, <<"T","C","-","0","0","1">>),
    K_title, <<"L","o","g","i","n"," ","w","o","r","k","s">>),
    K_steps, << <<"E","n","t","e","r"," ","u","s","e","r">>, <<"C","l","i","c","k"," ","l","o","g","i","n">> >>),
    K_expected, <<"U","s","e","r"," ","i","s"," ","l","o","g","g","e","d"," ","i","n">>),
    K_priority, <<"H","i","g","h">>)

\* the example text was the last one handed to the parser by the app
EndToEndParsed == pc = "app" /\ csvContent = JSString(EndToEndText)

\* the Plain CSV handler wrote the content for the example record
EndToEndExported ==
  Exported("csv") /\ generatedCases = <<EndToEndRecord>>

PlainHeaderLine ==
  <<"T","e","s","t"," ","I","D",",","T","i","t","l","e",",","S","t","e","p","s",",","E","x","p","e","c","t","e","d"," ","R","e","s","u","l","t",",","P","r","i","o","r","i","t","y",",","Q","u","a","l","i","t","y"," ","S","c","o","r","e">>

EndToEndRowStart ==
  <<"T","C","-","0","0","1",",","\"","L","o","g","i","n"," ","w","o","r","k","s","\"",",","\"","E","n","t","e","r"," ","u","s","e","r"," ","|"," ","C","l","i","c","k"," ","l","o","g","i","n","\"",",","\"","U","s","e","r"," ","i","s"," ","l","o","g","g","e","d"," ","i","n","\"",",","H","i","g","h",",">>

\* the quality report holds a positive score for the example record
HasPositiveScore ==
  /\ qualityReport.present
  /\ \E k \in 1..Len(qualityReport.individual_scores) :
        LET s == qualityReport.individual_scores
        IN /\ s[k].test_id = <<"T","C","-","0","0","1">>
           /\ \A j \in 1..(k - 1) : s[j].test_id /= <<"T","C","-","0","0","1">>
           /\ s[k].total_score.n > 0

\* that score with one decimal, followed by /10
PositiveScoreText ==
  LET s == qualityReport.individual_scores
      k == CHOOSE j \in 1..Len(s) : s[j].test_id = <<"T","C","-","0","0","1">>
  IN CASE s[k].total_score = Num(85, 1) -> <<"8",".","5","/","1","0">>
       [] s[k].total_score = Num(7, 0) -> <<"7",".","0","/","1","0">>

LastCell(l) ==
  LET commas == {k \in 1..Len(l) : l[k] = ","}
      last == IF commas = {} THEN 0
              ELSE CHOOSE k \in commas : \A j \in commas : j <= k
  IN SubSeq(l, last + 1, Len(l))

\* the Quality Score cell emitted for record k by the last export
QualityCellOf(k) ==
  IF exported.format = "xlsx" THEN exported.sheet[k + 1][8]
  ELSE LastCell(split(exported.content, NL)[k + 1])

\* a Plain CSV or spreadsheet export built its rows
RowsBuilt ==
  (Exported("csv") \/ Exported("xlsx")) /\ Len(generatedCases) > 0

\* the record's own quality score is zero (or it has none)
RecordScoreIsZero(k) ==
  ~hasProp(generatedCases[k], K_qualityScore)
    \/ generatedCases[k][K_qualityScore].n = 0

\* the texts of the scores that occur, with one decimal and /10
ScoreText(score) ==
  CASE score = Num(85, 1) -> <<"8",".","5","/","1","0">>
    [] score = Num(7, 0) -> <<"7",".","0","/","1","0">>
    [] score = Num(75, 1) -> <<"7",".","5","/","1","0">>
    [] OTHER -> <<"?">>

\* the first entry of the quality report for the id of record k, if any
ReportEntries(k) ==
  IF ~qualityReport.present THEN {}
  ELSE LET s == qualityReport.individual_scores
       IN {j \in 1..Len(s) :
             /\ s[j].test_id = generatedCases[k][K_id]
             /\ \A h \in 1..(j - 1) : s[h].test_id /= generatedCases[k][K_id]}

ReportedPositive(k) ==
  \E j \in ReportEntries(k) :
     qualityReport.individual_scores[j].total_score.n > 0

ReportedScore(k) ==
  qualityReport.individual_scores[CHOOSE j \in ReportEntries(k) : TRUE].total_score

LabelsFormatted == pc = "labels"

\* the record has a non-empty value under the key
IsSet(key) == hasProp(testCase, key) /\ Len(testCase[key]) > 0

\* C22: the Labels cell is the category and the type in that order, joined
\* by a comma and a space, with an absent or empty value skipped: both
\* absent gives the empty string and one absent gives the other alone.
C22_Labels ==
  LabelsFormatted =>
    formatted =
      CASE IsSet(K_category) /\ IsSet(K_type) ->
             testCase[K_category] \o <<","," ">> \o testCase[K_type]
        [] IsSet(K_category) /\ ~IsSet(K_type) -> testCase[K_category]
        [] ~IsSet(K_category) /\ IsSet(K_type) -> testCase[K_type]
        [] OTHER -> <<>>

\* both set, and the category comes first
C22_Witness ==
  /\ LabelsFormatted
  /\ IsSet(K_category) /\ IsSet(K_type)
  /\ testCase[K_category] = <<"U","I">> /\ testCase[K_type] = <<"U","n","i","t">>
  /\ formatted = <<"U","I",","," ","U","n","i","t">>

\* an empty category is skipped without a separator
C22_WitnessSkipped ==
  /\ LabelsFormatted
  /\ hasProp(testCase, K_category) /\ testCase[K_category] = <<>>
  /\ formatted = <<"U","n","i","t">>


\* ------------------------------------------------------------------ C23
\* the rows of a CSV text: it is cut at the newlines outside quoted spans
CsvRows(text) ==
  LET cuts == {k \in 1..Len(text) :
                 /\ text[k] = NL
                 /\ Cardinality({j \in 1..(k - 1) : text[j] = QUOTE}) % 2 = 0}
      nth(n) == IF n = 0 THEN 0
                ELSE IF n > Cardinality(cuts) THEN Len(text) + 1
                ELSE CHOOSE k \in cuts : Cardinality({j \in cuts : j <= k}) = n
  IN [n \in 1..(Cardinality(cuts) + 1) |->
        SubSeq(text, nth(n - 1) + 1, nth(n) - 1)]

\* the Zephyr handler built the content for at least one record
ZephyrBuilt == Exported("zephyr") /\ Len(generatedCases) > 0

\* C23: the Zephyr content is the row of the 17 column names followed by
\* one row per record in input order (row k carries the title of record k
\* as its Name); in every data row the Status cell is Approved and the
\* Folder cell is /Test Cases.
C23_ZephyrShape ==
  ZephyrBuilt =>
    LET rows == CsvRows(exported.content)
        names == parseCSVLine(rows[1])
    IN /\ Len(rows) = Len(generatedCases) + 1
       /\ Len(names) = 17
       /\ names[1] = <<"N","a","m","e">> /\ names[2] = <<"S","t","a","t","u","s">>
       /\ names[5] = <<"F","o","l","d","e","r">> /\ names[8] = <<"L","a","b","e","l","s">>
       /\ names[17] = <<"T","e","s","t"," ","S","c","r","i","p","t"," ","(","B","D","D",")">>
       /\ \A k \in 1..Len(generatedCases) :
             LET cells == parseCSVLine(rows[k + 1])
             IN /\ cells[1] = IF hasProp(generatedCases[k], K_title)
                                THEN generatedCases[k][K_title] ELSE <<>>
                /\ cells[2] = <<"A","p","p","r","o","v","e","d">>
                /\ cells[5] = <<"/","T","e","s","t"," ","C","a","s","e","s">>

\* two records were exported, in their order, with a priority of their own
C23_Witness ==
  /\ ZephyrBuilt /\ exported.written
  /\ Len(generatedCases) = 2
  /\ generatedCases[1][K_title] = <<"L","o","g","i","n">>
  /\ generatedCases[2][K_title] = <<"L","o","g","o","u","t">>
  /\ generatedCases[2][K_priority] = <<"H","i","g","h">>
  /\ Len(CsvRows(exported.content)) = 3
  /\ parseCSVLine(CsvRows(exported.content)[3])[1] = <<"L","o","g","o","u","t">>
  /\ parseCSVLine(CsvRows(exported.content)[3])[2] = <<"A","p","p","r","o","v","e","d">>


\* ------------------------------------------------------------------ C25
\* some export handler reached the file-write step
WriteReached ==
  pc = "app" /\ exported.format \in {"csv", "xlsx", "zephyr"}
             /\ exported.log /= ""

\* text ends with suffix
EndsWith(text, suffix) ==
  /\ Len(suffix) <= Len(text)
  /\ SubSeq(text, Len(text) - Len(suffix) + 1, Len(text)) = suffix

\* C25: for every export that reaches the file-write step, the Export
\* Success log and box are produced only if the write returned success; if
\* it returned failure an error log and an error box carrying the write's
\* error text are produced and no success is reported.
C25_OutcomeFollowsWrite ==
  /\ WriteReached =>
       IF exported.written
         THEN exported.box = "Export Success" /\ exported.log = "info"
         ELSE /\ exported.log = "error"
              /\ exported.box \in {"Export Error", "Export Failed"}
              /\ exported.writeError /= <<>>
              /\ EndsWith(exported.logText, exported.writeError)
              /\ EndsWith(exported.message, exported.writeError)
  /\ (pc = "app" /\ exported.box = "Export Success") => exported.written

\* a failed write was reported with the write's error text
C25_Witness ==
  /\ WriteReached /\ ~exported.written
  /\ exported.format = "xlsx"
  /\ exported.writeError = <<"E","A","C","C","E","S">>
  /\ exported.logText = <<"E","x","p","o","r","t"," ","f","a","i","l","e","d",":"," ","E","A","C","C","E","S">>
  /\ exported.box = "Export Error"

C25_WitnessSuccess ==
  /\ WriteReached /\ exported.written
  /\ exported.format = "zephyr" /\ exported.box = "Export Success"


\* ------------------------------------------------------------------ C24
\* a step in which an export handler built rows
BuildsRows ==
  pc' = "app" /\ exported'.format /= "" /\ exported'.log /= ""

QuotedTextParsed == pc = "text"

\* position of the Steps column among the column names, 0 if none
StepsColumn(names) ==
  IF \E k \in 1..Len(names) : toLowerCase(names[k]) = <<"s","t","e","p","s">>
    THEN CHOOSE k \in 1..Len(names) : toLowerCase(names[k]) = <<"s","t","e","p","s">>
    ELSE 0

\* the Steps cell of data row k of the parsed text, a quoted cell being
\* one cell wherever its line breaks fall
StepsCellOf(k) ==
  LET rows == CsvRows(csvContent.str)
  IN parseCSVLine(rows[k + 1])[StepsColumn(parseCSVLine(rows[1]))]

\* the rule of the claim
StepsRule(c) ==
  IF includesChar(c, PIPE)
    THEN LET parts == split(c, PIPE) IN [k \in 1..Len(parts) |-> trim(parts[k])]
  ELSE IF includesChar(c, NL)
    THEN LET parts == split(c, NL)
         IN [k \in 1..Len(parts) |-> stripNumbering(trim(parts[k]))]
  ELSE <<c>>

\* C26: in every record produced by parseCSVToTestCases, steps is decoded
\* from the Steps cell by the rule: split at | if it contains one, else
\* split at the newlines with a leading N. stripped if it is a quoted
\* multi-line cell, else the whole cell is the single step.
C26_StepsRule ==
  (QuotedTextParsed /\ Len(Records) = Len(CsvRows(csvContent.str)) - 1) =>
    \A k \in 1..Len(Records) :
       /\ hasProp(Records[k], K_steps)
       /\ Records[k][K_steps] = StepsRule(StepsCellOf(k))


\* ------------------------------------------------------------------ C27
\* the header line of the parsed text
HeaderLineOf(text) ==
  LET ls == split(text, NL)
  IN ls[CHOOSE k \in 1..Len(ls) :
          /\ MentionsKeyword(ls[k])
          /\ \A j \in 1..(k - 1) : ~MentionsKeyword(ls[j])]

\* C27: the column names used by parseCSVToTestCases are the fields the
\* CSV line tokenizer returns for the header line: a quoted name with a
\* comma in it is one column, and there are as many columns as fields.
C27_HeaderTokenized ==
  /\ (ParsedText /\ HasHeader) =>
        parseHeaders(lines[FirstHeader]) = parseCSVLine(lines[FirstHeader])
  /\ QuotedTextParsed =>
        LET headerLine == HeaderLineOf(csvContent.str)
        IN /\ Len(parseHeaders(headerLine)) = Len(parseCSVLine(headerLine))
           /\ parseHeaders(headerLine) = parseCSVLine(headerLine)


\* ------------------------------------------------------------------ C28
\* the canonical fields of a record
CanonicalKeys ==
  {K_id, K_title, K_steps, K_expected, K_priority, K_category, K_type,
   K_qualityScore}

\* a step that maps one more column, whose header is not an alias
MapsOtherColumn ==
  pc' = "row" /\ Len(headers') = Len(headers) + 1
              /\ ~IsAlias(headers'[Len(headers')])

\* C28: a column whose header is not one of the recognised aliases never
\* sets or overwrites a canonical field of the record.
C28_OtherColumnsKeepCanonical ==
  [][MapsOtherColumn =>
       \A key \in CanonicalKeys :
          /\ hasProp(testCase', key) = hasProp(testCase, key)
          /\ hasProp(testCase, key) => testCase'[key] = testCase[key]]_vars


\* ------------------------------------------------------------------ C29
\* a run of checkLLMConfiguration has ended
ConfigChecked == pc = "checked"

\* a usable API key: not blank, not the placeholder, longer than 10
ValidKey(key) ==
  /\ Len(key) > 10
  /\ \E k \in 1..Len(key) : key[k] /= " "
  /\ key /= <<"y","o","u","r","-","o","p","e","n","a","i","-","a","p","i","-","k","e","y","-","h","e","r","e">>

\* the provider selected in the loaded configuration ('openai' when none)
SelectedProvider ==
  IF configResult.config.provider = <<>> THEN <<"o","p","e","n","a","i">>
  ELSE configResult.config.provider

\* the selected provider itself has valid credentials
SelectedProviderValid ==
  LET config == configResult.config
  IN CASE SelectedProvider = <<"o","p","e","n","a","i">> -> ValidKey(config.openaiApiKey)
       [] SelectedProvider = <<"a","n","t","h","r","o","p","i","c">> -> ValidKey(config.anthropicApiKey)
       [] SelectedProvider = <<"g","o","o","g","l","e">> -> ValidKey(config.googleApiKey)
       [] SelectedProvider = <<"o","l","l","a","m","a">> ->
            /\ config.ollamaVerified
            /\ \/ SubSeq(config.ollamaHost, 1, 7) = <<"h","t","t","p",":","/","/">>
               \/ SubSeq(config.ollamaHost, 1, 8) = <<"h","t","t","p","s",":","/","/">>
       [] OTHER -> FALSE

\* C29: whenever checkLLMConfiguration has set llmConfigStatus.isConfigured
\* to true, the selected provider itself has valid credentials.
C29_SelectedProviderValid ==
  (ConfigChecked /\ llmConfigStatus.isConfigured) =>
     /\ configResult.kind = "loaded"
     /\ SelectedProviderValid

\* ------------------------------------------------------------------ C30
\* C30: every run of checkLLMConfiguration leaves configLoading false,
\* whatever getConfiguration did: once the run has ended, configLoading is
\* false.
C30_LoadingEnds ==
  ConfigChecked => configLoading = FALSE

====
